---------------------------- MODULE Spec2Model ----------------------------
(***************************************************************************)
(* A model of the visionHubOS event runtime: the debounced button source,  *)
(* the tick source, the mutex-guarded event queue, the polled scheduler    *)
(* (src/system/events.rs, src/system/scheduler.rs) and the widgets,        *)
(* screens and screen manager (src/src/ui/framework.rs).                   *)
(*                                                                         *)
(* Time is the value of the monotonic clock (Instant::now()) in            *)
(* milliseconds; `now` is the clock, every operation that reads the clock  *)
(* reads this variable.                                                    *)
(***************************************************************************)
EXTENDS Integers, Sequences, FiniteSets

VARIABLES
    now,            \* the monotonic clock, ms
    \* ---- EventQueue (events.rs 17-41)
    queue,          \* VecDeque<Event> behind the mutex
    queue_lock,     \* holder of the queue's mutex, or NoOwner
    pc,             \* position of each thread that uses the queue
    \* ---- ButtonEventSource (events.rs 47-92)
    last_state,     \* bool, TRUE = high = released
    last_event,     \* Instant of the last accepted transition
    \* ---- Scheduler (scheduler.rs 27-31)
    tasks,          \* BinaryHeap<ScheduledTask>, as the set of its elements
    next_id,        \* u32
    \* ---- observations (what a test harness would record)
    polls,          \* every ButtonEventSource::poll made: [at, level]
    emitted,        \* every event a ButtonEventSource pushed: [ev, at]
    constructed_at, \* the instant ButtonEventSource::new ran
    pushed,         \* per producer thread: number of events pushed
    popped,         \* every event the consumer popped, in pop order
    fired,          \* callbacks run by the step just taken: [task, done]
    invocations,    \* per task id: number of callback invocations so far
    issued,         \* every id schedule_once / schedule_recurring returned
    cancelled,      \* ids of issued tasks for which cancel_task has returned
    ret_id,         \* the id the last schedule_once / schedule_recurring returned
    ret_ok,         \* the bool the step just taken returned (pop: whether it was Some)
    period,         \* sleep of the periodic driver loop (0: no periodic driver)
    \* ---- SystemTickSource (events.rs 125-151)
    last_triggered, \* Instant of the last tick pushed (of construction at first)
    tick_interval,  \* SystemTickSource::interval, ms
    tick_polls,     \* every SystemTickSource::poll made: the instant it read
    \* ---- Label, Button (framework.rs 22-141)
    label,          \* a Label
    label_args,     \* the arguments that Label was constructed with
    button,         \* a Button
    \* ---- ScreenManager (framework.rs 236-297)
    screens,        \* Vec<Box<dyn Screen>>, each screen a record
    current_screen, \* usize
    main_pc,        \* position of the main thread ("dispatch": inside process_events)
    halted,         \* "running", or how the main thread stopped for good
    \* ---- observations of the user interface
    delivered,      \* every Screen::handle_event call that returned:
                    \* [screen, ev, ret, draws, iter]
    calls,          \* Widget::handle_event calls of the step just taken
    draws,          \* Screen::draw calls of the step just taken: [screen, ok]
    clicks,         \* number of on_click invocations so far
    iter,           \* number of the main loop's iteration
    \* ---- DisplayManager (src/src/drivers/display.rs 58-176)
    sink,           \* the draw calls the operation just run issued, in order
    sink_ret,       \* the Result that operation returned: "Ok" or "DrawError"
    sink_op,        \* the widget or display operation last run, with its arguments
    \* ---- Button with its geometry (framework.rs 80-98)
    built,          \* a Button as Button::new laid it out
    built_args,     \* the arguments it was constructed with
    \* ---- reference screens (src/src/ui/screens)
    loading,        \* a LoadingScreen: progress, last_update, the bar's progress
    load_obs,       \* SystemTicks it handled, instant of its last increment
    home,           \* a HomeScreen: counter, status label, menu button
    menu,           \* a MenuScreen: number of items, selected_index
    ran             \* the menu actions the step just taken ran, in order

vars == <<now, queue, queue_lock, pc, last_state, last_event, tasks, next_id,
          polls, emitted, constructed_at, pushed, popped, fired, invocations, issued,
          cancelled, ret_id, ret_ok, period, last_triggered, tick_interval,
          tick_polls, label, label_args, button, screens, current_screen, main_pc, halted,
          delivered, calls, draws, clicks, iter, sink, sink_ret, sink_op, built,
          built_args, loading, load_obs, home, menu, ran>>

button_vars == <<last_state, last_event, polls, emitted, constructed_at>>
sched_vars == <<tasks, next_id, fired, invocations, issued, cancelled, ret_id, period>>
thread_vars == <<queue_lock, pc, pushed, popped>>
tick_vars == <<last_triggered, tick_interval, tick_polls>>
widget_vars == <<label, label_args, button>>
ui_vars == <<screens, current_screen, halted, delivered, calls, draws, clicks,
             iter>>
app_vars == <<sink, sink_ret, sink_op, built, built_args, loading, load_obs,
              home, menu, ran>>
\* Everything but the display, the laid-out button and the reference screens.
base_vars == <<now, queue, ret_ok, main_pc, button_vars, thread_vars, sched_vars,
               tick_vars, widget_vars, ui_vars>>

---------------------------------------------------------------------------
(* Bounds of the model.                                                    *)

TimeStep == 10          \* granularity of the sources' clock; the main loop's sleep, ms
MaxTime == 60           \* last instant of the sources' clock, ms
MaxPolls == 4           \* polls recorded per behaviour
MaxPush == 2            \* events pushed per producer thread
MaxTasks == 2           \* ids handed out by the scheduler
MaxClock == 2           \* last instant of the scheduler clock, ms
MaxQueue == 2           \* queue length past which the scheduler runs stop
MaxInterval == 3        \* largest interval of the periodic runs
MaxPeriodic == 12       \* last instant of the periodic runs, ms

\* Inputs offered to the scheduler, ms.
Delays == {0, 1}        \* delay of schedule_once / schedule_recurring
Intervals == {0, 1}     \* interval of schedule_recurring
CallbackMs == {0, 1}    \* time a callback takes

---------------------------------------------------------------------------
(* Event (events.rs 6-15).  A variant with its payload.                     *)

ButtonPressed(p) == [type |-> "ButtonPressed", arg |-> p]
ButtonReleased(p) == [type |-> "ButtonReleased", arg |-> p]
Timer(id) == [type |-> "Timer", arg |-> id]
Custom(tag) == [type |-> "Custom", arg |-> tag]

\* Option<T>: None is the empty set, Some(x) the singleton.
None == {}
Some(x) == {x}

---------------------------------------------------------------------------
(* EventQueue (events.rs 17-41).                                            *)

NoOwner == "none"

\* VecDeque::push_back
push_back(q, e) == Append(q, e)

\* VecDeque::pop_front: the element taken (an Option) and what is left
pop_back(q) ==
    IF q = <<>> THEN [ret |-> None, rest |-> q]
    ELSE [ret |-> Some(q[Len(q)]), rest |-> SubSeq(q, 1, Len(q) - 1)]

pop_front(q) ==
    IF q = <<>> THEN [ret |-> None, rest |-> q]
    ELSE [ret |-> Some(Head(q)), rest |-> Tail(q)]

\* EventQueue::push called by a thread that runs alone: lock, push_back, unlock.
push(q, e) == push_back(q, e)

---------------------------------------------------------------------------
(* ButtonEventSource (events.rs 47-92).                                     *)

debounce_time == 50     \* Duration::from_millis(50)
pin_number == 26        \* the pin the source was constructed with

\* Instants at which a source may have been constructed, relative to 0.
ConstructTimes == {0 - debounce_time, 0 - 2 * TimeStep, 0}

\* The two nested conditions of poll(): the debounce time has passed since
\* last_event and the level read differs from last_state.
PollAcceptsNoDebounce(current_state, t) ==
    current_state # last_state

PollAcceptsStrict(current_state, t) ==
    /\ t - last_event > debounce_time
    /\ current_state # last_state

PollAccepts(current_state, t) ==
    /\ t - last_event >= debounce_time
    /\ current_state # last_state

\* The event poll() pushes for the level read.
PollEventPressed(current_state) == ButtonPressed(pin_number)

PollEvent(current_state) ==
    IF current_state THEN ButtonReleased(pin_number)
    ELSE ButtonPressed(pin_number)

\* ButtonEventSource::new at instant tc.
ButtonNew(tc) ==
    /\ last_state = TRUE
    /\ last_event = tc
    /\ constructed_at = tc
    /\ polls = <<>>
    /\ emitted = <<>>

\* ButtonEventSource::poll with the pin read as `level` (TRUE = high).
ButtonPoll(level) ==
    /\ Len(polls) < MaxPolls
    /\ queue_lock = NoOwner
    /\ polls' = Append(polls, [at |-> now, level |-> level])
    /\ IF PollAccepts(level, now)
       THEN /\ queue' = push(queue, PollEvent(level))
            /\ last_state' = level
            /\ last_event' = now
            /\ emitted' = Append(emitted, [ev |-> PollEvent(level), at |-> now])
       ELSE UNCHANGED <<queue, last_state, last_event, emitted>>
    /\ UNCHANGED <<tick_vars, app_vars, widget_vars, ui_vars>>
    /\ UNCHANGED <<now, constructed_at, thread_vars, sched_vars, ret_ok>>

\* The clock advances between polls.
ButtonTick ==
    /\ now + TimeStep <= MaxTime
    /\ now' = now + TimeStep
    /\ UNCHANGED <<tick_vars, app_vars, widget_vars, ui_vars>>
    /\ UNCHANGED <<queue, button_vars, thread_vars, sched_vars, ret_ok>>

---------------------------------------------------------------------------
(* Scheduler (scheduler.rs).  The heap is the set of its elements: ids are *)
(* unique, and which of several greatest elements the heap yields is left  *)
(* open.  next_id stays far below u32::MAX in every run.                   *)

Unwrap(opt) == CHOOSE x \in opt : TRUE

\* Instant::cmp
InstantCmp(a, b) == IF a < b THEN "Less" ELSE IF a = b THEN "Equal" ELSE "Greater"

\* impl Ord for ScheduledTask: other.next_run.cmp(&self.next_run)
TaskCmpForward(self, other) == InstantCmp(self.next_run, other.next_run)

TaskCmp(self, other) == InstantCmp(other.next_run, self.next_run)

\* BinaryHeap::peek / pop: a greatest element of the heap
Peek(heap) == {t \in heap : \A u \in heap : TaskCmp(u, t) # "Greater"}

\* The ids handed out: task_id = self.next_id; self.next_id += 1
NextIdStuck(n) == n

NextId(n) == n + 1

\* ScheduledTask as schedule_once / schedule_recurring build it at instant t
NewTask(task_id, t, delay, interval) ==
    [id |-> task_id, next_run |-> t + delay, interval |-> interval]

\* cancel_task's loop: the drained tasks that go into new_heap
CancelRetainAll(heap, id) == heap

CancelRetainInverted(heap, id) == {t \in heap : t.id = id}

CancelRetain(heap, id) == {t \in heap : t.id # id}

\* A while loop that pushes a recurring task back on the heap it is scanning,
\* due again max(interval, 1) ms after it was due.
RECURSIVE PopRunsReinserting(_, _)
PopRunsReinserting(heap, t0) ==
    IF heap = {} THEN {<<>>}
    ELSE UNION { IF t.next_run <= t0
                 THEN LET again ==
                              IF t.interval = None THEN {}
                              ELSE {[t EXCEPT !.next_run =
                                        IF Unwrap(t.interval) = 0 THEN @ + 1
                                        ELSE @ + Unwrap(t.interval)]}
                      IN  {<<t>> \o r :
                             r \in PopRunsReinserting((heap \ {t}) \cup again, t0)}
                 ELSE {<<>>} : t \in Peek(heap) }

\* update()'s while loop over the heap with `now` = t0: the sequences of
\* tasks it can pop, one after another, until the heap is empty or its
\* greatest element is not due.
RECURSIVE PopRuns(_, _)
PopRuns(heap, t0) ==
    IF heap = {} THEN {<<>>}
    ELSE UNION { IF t.next_run <= t0
                 THEN {<<t>> \o r : r \in PopRuns(heap \ {t}, t0)}
                 ELSE {<<>>} : t \in Peek(heap) }

RECURSIVE SumTo(_, _)
SumTo(f, k) == IF k = 0 THEN 0 ELSE f[k] + SumTo(f, k - 1)

\* The ScheduledTask update() builds for a recurring task it fired, at the
\* clock reading t taken when it is built.
RescheduleAtLoopNow(task, t0, t) ==
    [id |-> task.id, next_run |-> t0 + Unwrap(task.interval),
     interval |-> task.interval]

Reschedule(task, t0, t) ==
    [id |-> task.id, next_run |-> t + Unwrap(task.interval),
     interval |-> task.interval]

Count(id) == IF id \in DOMAIN invocations THEN invocations[id] ELSE 0

\* Scheduler::schedule_once(delay, callback)
ScheduleOnce(delay) ==
    LET task_id == next_id
    IN  /\ next_id' = NextId(next_id)
        /\ tasks' = tasks \cup {NewTask(task_id, now, delay, None)}
        /\ issued' = issued \cup {task_id}
        /\ ret_id' = task_id
        /\ fired' = <<>>
        /\ ret_ok' = FALSE
        /\ UNCHANGED <<tick_vars, app_vars, widget_vars, ui_vars>>
        /\ UNCHANGED <<now, queue, invocations, cancelled, period, button_vars,
                       thread_vars>>

\* Scheduler::schedule_recurring(delay, callback); the `interval` its body
\* names (scheduler.rs 72) is taken as a second argument.
ScheduleRecurring(delay, interval) ==
    LET task_id == next_id
    IN  /\ next_id' = NextId(next_id)
        /\ tasks' = tasks \cup {NewTask(task_id, now, delay, Some(interval))}
        /\ issued' = issued \cup {task_id}
        /\ ret_id' = task_id
        /\ fired' = <<>>
        /\ ret_ok' = FALSE
        /\ UNCHANGED <<tick_vars, app_vars, widget_vars, ui_vars>>
        /\ UNCHANGED <<now, queue, invocations, cancelled, period, button_vars,
                       thread_vars>>

\* Scheduler::cancel_task(id)
CancelTask(id) ==
    LET old_len == Cardinality(tasks)
        new_heap == CancelRetain(tasks, id)
    IN  /\ tasks' = new_heap
        /\ ret_ok' = (old_len # Cardinality(new_heap))
        /\ cancelled' = IF id \in issued THEN cancelled \cup {id}
                        ELSE cancelled
        /\ fired' = <<>>
        /\ UNCHANGED <<tick_vars, app_vars, widget_vars, ui_vars>>
        /\ UNCHANGED <<now, queue, next_id, invocations, issued, ret_id, period,
                       button_vars, thread_vars>>

\* Scheduler::update() entered when the clock reads t0, every callback
\* taking one of the times in `durations`.  For the k-th task popped: the callback
\* runs, Timer(id) is pushed, and a recurring task is put on
\* tasks_to_reschedule with a fresh clock reading; after the loop these are
\* pushed back on the heap.
UpdateAt(t0, durations) ==
    /\ queue_lock = NoOwner
    /\ \E run \in PopRuns(tasks, t0) :
       \E durs \in [1..Len(run) -> durations] :
          LET done(k) == t0 + SumTo(durs, k)
              popped_tasks == {run[k] : k \in 1..Len(run)}
              tasks_to_reschedule ==
                  {Reschedule(run[k], t0, done(k)) :
                      k \in {j \in 1..Len(run) : run[j].interval # None}}
          IN  /\ fired' = [k \in 1..Len(run) |->
                             [task |-> run[k], done |-> done(k)]]
              /\ queue' = queue \o [k \in 1..Len(run) |-> Timer(run[k].id)]
              /\ invocations' =
                    [i \in DOMAIN invocations \cup {t.id : t \in popped_tasks} |->
                        Count(i) + Cardinality({k \in 1..Len(run) : run[k].id = i})]
              /\ tasks' = (tasks \ popped_tasks) \cup tasks_to_reschedule
              /\ now' = done(Len(run))
    /\ ret_ok' = FALSE
    /\ UNCHANGED <<tick_vars, app_vars, widget_vars, ui_vars>>
    /\ UNCHANGED <<next_id, ret_id, issued, cancelled, period, button_vars,
                   thread_vars>>

\* The clock advances between scheduler calls.
SchedTick ==
    /\ now' = now + 1
    /\ fired' = <<>>
    /\ ret_ok' = FALSE
    /\ UNCHANGED <<tick_vars, app_vars, widget_vars, ui_vars>>
    /\ UNCHANGED <<queue, ret_id, tasks, next_id, invocations, issued, cancelled,
                   period, button_vars, thread_vars>>

---------------------------------------------------------------------------
(* SystemTickSource (events.rs 125-151).                                    *)

SystemTick == [type |-> "SystemTick", arg |-> 0]

\* Intervals a tick source may be constructed with, ms.
TickIntervals == {0, 10, 20}

\* The condition of poll(): the interval has passed since last_triggered.
TickAcceptsAlways(t) == TRUE

TickAccepts(t) == t - last_triggered >= tick_interval

\* SystemTickSource::new at instant tc.
SystemTickNew(tc, interval) ==
    /\ last_triggered = tc
    /\ tick_interval = interval
    /\ tick_polls = <<>>

\* SystemTickSource::poll
SystemTickPoll ==
    /\ queue_lock = NoOwner
    /\ tick_polls' = Append(tick_polls, now)
    /\ IF TickAccepts(now)
       THEN /\ queue' = push(queue, SystemTick)
            /\ last_triggered' = now
            /\ emitted' = Append(emitted, [ev |-> SystemTick, at |-> now])
       ELSE UNCHANGED <<queue, last_triggered, emitted>>
    /\ UNCHANGED <<now, tick_interval, last_state, last_event, polls,
                   constructed_at, thread_vars, sched_vars, ret_ok>>
    /\ UNCHANGED <<widget_vars, ui_vars, app_vars>>

---------------------------------------------------------------------------
(* Label and Button (framework.rs 22-141).  A text is the sequence of its  *)
(* bytes; text.len() is the length of that sequence.                       *)

TextSizes == {"Small", "Normal", "Large"}

\* let char_width = match size { ... } (framework.rs 31-35, 55-59)
char_width(size) ==
    CASE size = "Small" -> 5
      [] size = "Normal" -> 6
      [] size = "Large" -> 8

\* let height = match size { ... } (framework.rs 38-42)
height(size) ==
    CASE size = "Small" -> 8
      [] size = "Normal" -> 10
      [] size = "Large" -> 16

\* Label::new(text, x, y, size)
Label_new(text, x, y, size) ==
    [text |-> text,
     position |-> [x |-> x, y |-> y],
     size |-> size,
     bounds |-> [x |-> x, y |-> y,
                 width |-> Len(text) * char_width(size),
                 height |-> height(size)]]

\* Label::set_text(text)
Label_set_text_stale(self, text) == [self EXCEPT !.text = text]

Label_set_text(self, text) ==
    [self EXCEPT !.text = text,
                 !.bounds.width = Len(text) * char_width(self.size)]

\* A Label constructed by Label::new(text, x, y, size).
LabelNew(text, x, y, size) ==
    /\ label = Label_new(text, x, y, size)
    /\ label_args = [text |-> text, x |-> x, y |-> y, size |-> size]

\* label.set_text(text)
LabelSetText(text) ==
    /\ label' = Label_set_text(label, text)
    /\ UNCHANGED <<label_args, button>>
    /\ UNCHANGED <<now, queue, ret_ok, main_pc, button_vars, thread_vars,
                   sched_vars, tick_vars, app_vars, ui_vars>>

\* The pin Button::handle_event matches on (framework.rs 123, 127).
SELECT_PIN == 26

\* Button::new: not pressed, no callback.
Button_new == [pressed |-> FALSE, on_click |-> None]

\* Button::set_on_click(callback)
Button_set_on_click(self, callback) == [self EXCEPT !.on_click = Some(callback)]

\* Button::handle_event(event): the button afterwards, the bool returned
\* and the callbacks invoked, in order.
Button_handle_event_any_pin(self, event) ==
    CASE event.type = "ButtonPressed" ->
            [self |-> [self EXCEPT !.pressed = TRUE], ret |-> TRUE,
             invoked |-> <<>>]
      [] event.type = "ButtonReleased" ->
            [self |-> [self EXCEPT !.pressed = FALSE], ret |-> TRUE,
             invoked |-> IF self.on_click # None
                         THEN <<Unwrap(self.on_click)>> ELSE <<>>]
      [] OTHER -> [self |-> self, ret |-> FALSE, invoked |-> <<>>]

Button_handle_event(self, event) ==
    CASE event.type = "ButtonPressed" /\ event.arg = SELECT_PIN ->
            [self |-> [self EXCEPT !.pressed = TRUE], ret |-> TRUE,
             invoked |-> <<>>]
      [] event.type = "ButtonReleased" /\ event.arg = SELECT_PIN ->
            [self |-> [self EXCEPT !.pressed = FALSE], ret |-> TRUE,
             invoked |-> IF self.on_click # None
                         THEN <<Unwrap(self.on_click)>> ELSE <<>>]
      [] OTHER -> [self |-> self, ret |-> FALSE, invoked |-> <<>>]

\* button.set_on_click(callback)
ButtonSetOnClick(callback) ==
    /\ button' = Button_set_on_click(button, callback)
    /\ ret_ok' = FALSE
    /\ UNCHANGED <<label, label_args>>
    /\ UNCHANGED <<now, queue, main_pc, button_vars, thread_vars, sched_vars,
                   tick_vars, app_vars, ui_vars>>

\* button.handle_event(event); a "log" callback changes nothing but the
\* count of invocations.  ret_ok records the bool returned.
ButtonHandleEvent(event) ==
    LET r == Button_handle_event(button, event)
    IN  /\ button' = r.self
        /\ ret_ok' = r.ret
        /\ clicks' = clicks + Len(r.invoked)
        /\ UNCHANGED <<label, label_args>>
        /\ UNCHANGED <<screens, current_screen, halted, delivered, calls, draws,
                       iter>>
        /\ UNCHANGED <<now, queue, main_pc, button_vars, thread_vars,
                       sched_vars, tick_vars, app_vars>>

---------------------------------------------------------------------------
(* Screen, DefaultScreen and ScreenManager (framework.rs 180-297).  A      *)
(* widget of a screen is a tagged variant of the concrete widgets; a       *)
(* callback is named by what it does when invoked: "log" writes a log      *)
(* line, "push" calls EventQueue::push on the shared queue.                *)

Main == "main"

LabelWidget(l) == [kind |-> "Label", w |-> l]
ButtonWidget(b) == [kind |-> "Button", w |-> b]

\* Widget::handle_event through the trait object: Button's, or Label's
\* (which returns false and changes nothing).
Widget_handle_event(widget, event) ==
    IF widget.kind = "Button"
    THEN LET r == Button_handle_event(widget.w, event)
         IN  [self |-> [widget EXCEPT !.w = r.self], ret |-> r.ret,
              invoked |-> r.invoked]
    ELSE [self |-> widget, ret |-> FALSE, invoked |-> <<>>]

\* The for loop of DefaultScreen::handle_event from the k-th widget on: the
\* widgets afterwards, `handled`, the callbacks invoked and the widgets
\* whose handle_event was called, in order.
RECURSIVE DispatchNoBreak(_, _, _)
DispatchNoBreak(widgets, event, k) ==
    IF k > Len(widgets)
    THEN [widgets |-> widgets, handled |-> FALSE, invoked |-> <<>>,
          called |-> <<>>]
    ELSE LET r == Widget_handle_event(widgets[k], event)
             rest == DispatchNoBreak([widgets EXCEPT ![k] = r.self], event, k + 1)
         IN  [rest EXCEPT !.handled = r.ret \/ @,
                          !.invoked = r.invoked \o @,
                          !.called = <<k>> \o @]

RECURSIVE Dispatch(_, _, _)
Dispatch(widgets, event, k) ==
    IF k > Len(widgets)
    THEN [widgets |-> widgets, handled |-> FALSE, invoked |-> <<>>,
          called |-> <<>>]
    ELSE LET r == Widget_handle_event(widgets[k], event)
             ws == [widgets EXCEPT ![k] = r.self]
         IN  IF r.ret
             THEN [widgets |-> ws, handled |-> TRUE, invoked |-> r.invoked,
                   called |-> <<k>>]
             ELSE LET rest == Dispatch(ws, event, k + 1)
                  IN  [rest EXCEPT !.invoked = r.invoked \o @,
                                   !.called = <<k>> \o @]

\* DefaultScreen::new followed by add_widget for each of `widgets`.
DefaultScreen(widgets) == [kind |-> "DefaultScreen", widgets |-> widgets]

\* `let _ = self.draw(); ... handled` (framework.rs 228-232): the bool
\* handle_event returns, from `handled` and whether the draw succeeded.
handled_if_drawn(handled, draw_ok) == handled /\ draw_ok

handle_event_result(handled, draw_ok) == handled

\* DefaultScreen::handle_event(event) when the display answers a draw with
\* draw_ok: the screen afterwards, the bool returned, the callbacks invoked,
\* the widgets called and the results of the self.draw() calls made.
DefaultScreen_handle_event(self, event, draw_ok) ==
    LET d == Dispatch(self.widgets, event, 1)
    IN  [self |-> [self EXCEPT !.widgets = d.widgets],
         ret |-> handle_event_result(d.handled, draw_ok),
         invoked |-> d.invoked, called |-> d.called,
         draws |-> IF d.handled THEN <<draw_ok>> ELSE <<>>]

\* The screens an application adds.
ScreenChoices ==
    {DefaultScreen(<<LabelWidget(Label_new(<<>>, 0, 0, "Normal"))>>),
     DefaultScreen(<<LabelWidget(Label_new(<<>>, 0, 0, "Normal")),
                     ButtonWidget(Button_set_on_click(Button_new, "log")),
                     ButtonWidget(Button_new)>>),
     DefaultScreen(<<ButtonWidget(Button_set_on_click(Button_new, "push"))>>)}

\* self.screens[index]: the place of the screen in the sequence of screens.
screen_last_added(index) == Len(screens)

screen_at(index) == index + 1

\* ScreenManager::new
ScreenManagerNew ==
    /\ screens = <<>>
    /\ current_screen = 0
    /\ main_pc = "idle"
    /\ halted = "running"
    /\ delivered = <<>>
    /\ calls = <<>>
    /\ draws = <<>>
    /\ clicks = 0
    /\ iter = 0

\* ScreenManager::add_screen(screen)
AddScreen(screen) ==
    /\ halted = "running"
    /\ main_pc = "idle"
    /\ screens' = Append(screens, screen)
    /\ calls' = <<>>
    /\ draws' = <<>>
    /\ ret_ok' = FALSE
    /\ UNCHANGED <<current_screen, main_pc, halted, delivered, clicks, iter>>
    /\ UNCHANGED <<now, queue, button_vars, thread_vars, sched_vars, tick_vars, app_vars,
                   widget_vars>>

\* `self.screens[self.current_screen].draw()?; ... Ok(())`: whether
\* switch_to_screen returns Ok, from whether the draw did.
switch_result_swallowed(draw_ok) == TRUE

switch_result(draw_ok) == draw_ok

\* ScreenManager::switch_to_screen(index); the display decides whether the
\* draw succeeds.  ret_ok records whether the Result is Ok.
SwitchToScreen(index) ==
    /\ halted = "running"
    /\ main_pc = "idle"
    /\ IF index < Len(screens)
       THEN /\ current_screen' = index
            /\ \E draw_ok \in BOOLEAN :
                  /\ draws' = <<[screen |-> screen_at(index) - 1, ok |-> draw_ok]>>
                  /\ ret_ok' = switch_result(draw_ok)
       ELSE /\ ret_ok' = TRUE
            /\ draws' = <<>>
            /\ UNCHANGED current_screen
    /\ calls' = <<>>
    /\ UNCHANGED <<screens, main_pc, halted, delivered, clicks, iter>>
    /\ UNCHANGED <<now, queue, button_vars, thread_vars, sched_vars, tick_vars, app_vars,
                   widget_vars>>

\* process_events: `let mut queue = self.event_queue.lock().unwrap()`
\* (framework.rs 269), entered at position `from`.
ProcessLock(from) ==
    /\ halted = "running"
    /\ main_pc = from
    /\ queue_lock = NoOwner
    /\ queue_lock' = Main
    /\ main_pc' = "dispatch"
    /\ calls' = <<>>
    /\ draws' = <<>>
    /\ ret_ok' = FALSE
    /\ UNCHANGED <<screens, current_screen, halted, delivered, clicks, iter>>
    /\ UNCHANGED <<now, queue, pc, pushed, popped, button_vars, sched_vars,
                   tick_vars, app_vars, widget_vars>>

\* process_events: one turn of `while let Some(event) = queue.pop_front()`
\* (framework.rs 271-273) that finds an event.  Indexing screens out of
\* range panics.  A callback that calls EventQueue::push locks the mutex
\* this thread holds: the call never returns, it deadlocks or panics.
\* `outcomes` are the results the display may give a draw (TRUE: Ok).
ProcessDispatch(outcomes) ==
    /\ halted = "running"
    /\ main_pc = "dispatch"
    /\ pop_front(queue).ret # None
    /\ LET r == pop_front(queue)
           event == Unwrap(r.ret)
       IN  /\ queue' = r.rest
           /\ IF current_screen >= Len(screens)
              THEN /\ halted' = "index_panic"
                   /\ queue_lock' = NoOwner
                   /\ calls' = <<>>
                   /\ draws' = <<>>
                   /\ UNCHANGED <<screens, delivered, clicks>>
              ELSE \E draw_ok \in outcomes :
                   LET at == screen_at(current_screen)
                       h == DefaultScreen_handle_event(screens[at], event,
                                                       draw_ok)
                       relock == \E k \in 1..Len(h.invoked) : h.invoked[k] = "push"
                   IN  /\ screens' = [screens EXCEPT ![at] = h.self]
                       /\ calls' = h.called
                       /\ clicks' = clicks + Len(h.invoked)
                       /\ IF relock /\ queue_lock # NoOwner
                          THEN /\ halted' \in {"deadlock", "lock_panic"}
                               /\ draws' = <<>>
                               /\ UNCHANGED <<queue_lock, delivered>>
                          ELSE /\ draws' = [k \in 1..Len(h.draws) |->
                                              [screen |-> at - 1,
                                               ok |-> h.draws[k]]]
                               /\ delivered' = Append(delivered,
                                     [screen |-> at - 1, ev |-> event,
                                      ret |-> h.ret, draws |-> h.draws,
                                      iter |-> iter])
                               /\ UNCHANGED <<queue_lock, halted>>
    /\ ret_ok' = FALSE
    /\ UNCHANGED <<current_screen, main_pc, iter>>
    /\ UNCHANGED <<now, pc, pushed, popped, button_vars, sched_vars, tick_vars, app_vars,
                   widget_vars>>

\* process_events: pop_front() returns None, the guard is dropped and
\* Ok(()) returned (framework.rs 271, 275-276); the caller goes on at `to`.
ProcessReturn(to) ==
    /\ halted = "running"
    /\ main_pc = "dispatch"
    /\ pop_front(queue).ret = None
    /\ queue_lock' = NoOwner
    /\ main_pc' = to
    /\ ret_ok' = TRUE
    /\ calls' = <<>>
    /\ draws' = <<>>
    /\ UNCHANGED <<screens, current_screen, halted, delivered, clicks, iter>>
    /\ UNCHANGED <<now, queue, pc, pushed, popped, button_vars, sched_vars,
                   tick_vars, app_vars, widget_vars>>

\* screen.type_id(): the concrete type behind the Box<dyn Screen>; the
\* screens added here are all DefaultScreen.
type_id(screen) == "DefaultScreen"

\* The types get_screen_as_mut is asked for.
ScreenTypes == {"DefaultScreen", "LoadingScreen"}

\* ScreenManager::get_screen_as_mut::<T>(): `&mut self.screens[
\* self.current_screen]` panics when the index is out of range; otherwise
\* Some(screen) iff the screen's type is T.  ret_ok records whether the
\* Option is Some.
GetScreenAsMut(T) ==
    /\ halted = "running"
    /\ main_pc = "idle"
    /\ IF current_screen >= Len(screens)
       THEN /\ halted' = "index_panic"
            /\ ret_ok' = FALSE
       ELSE /\ ret_ok' = (type_id(screens[screen_at(current_screen)]) = T)
            /\ UNCHANGED halted
    /\ calls' = <<>>
    /\ draws' = <<>>
    /\ UNCHANGED <<screens, current_screen, main_pc, delivered, clicks, iter>>
    /\ UNCHANGED <<now, queue, button_vars, thread_vars, sched_vars, tick_vars, app_vars,
                   widget_vars>>

\* EventQueue::push(event) by an input source or the scheduler, between two
\* calls of the screen manager.
PushEvent(event) ==
    /\ halted = "running"
    /\ main_pc = "idle"
    /\ queue_lock = NoOwner
    /\ queue' = push(queue, event)
    /\ calls' = <<>>
    /\ draws' = <<>>
    /\ ret_ok' = FALSE
    /\ UNCHANGED <<screens, current_screen, main_pc, halted, delivered, clicks,
                   iter>>
    /\ UNCHANGED <<now, button_vars, thread_vars, sched_vars, tick_vars, app_vars,
                   widget_vars>>

---------------------------------------------------------------------------
(* DisplayManager (src/src/drivers/display.rs 58-176).  A draw call is the *)
(* primitive handed to the SSD1306 driver: a text with its position and    *)
(* font, or a rectangle with its position, size and style.  Each primitive *)
(* may fail; the outcome is an input of the operation.                     *)

\* embedded_graphics::mono_font::ascii::FONT_6X10 (display.rs 2): glyphs 6
\* pixels wide, lines 10 pixels high.
FONT_6X10 == [char_w |-> 6, line_h |-> 10]

\* let font = match size { ... } (display.rs 112-116)
draw_text_font(size) ==
    CASE size = "Small" -> FONT_6X10
      [] size = "Normal" -> FONT_6X10
      [] size = "Large" -> FONT_6X10

Ok == "Ok"
DrawError == "DrawError"

\* .map_err(|_| DisplayError::DrawError)? ... Ok(())
draw_result(ok) == IF ok THEN Ok ELSE DrawError

\* DisplayManager::draw_text(text, x, y, size)
draw_text(text, x, y, size, ok) ==
    [calls |-> <<[op |-> "text", text |-> text, x |-> x, y |-> y,
                  font |-> draw_text_font(size)]>>,
     ret |-> draw_result(ok)]

\* DisplayManager::draw_rectangle(x, y, width, height, filled)
draw_rectangle(x, y, width, height_, filled, ok) ==
    [calls |-> <<[op |-> "rect", x |-> x, y |-> y, width |-> width,
                  height |-> height_, filled |-> filled]>>,
     ret |-> draw_result(ok)]

\* u32::saturating_sub, u8::min
wrapping_sub(a, b) == a - b

saturating_sub(a, b) == IF a > b THEN a - b ELSE 0
min(a, b) == IF a < b THEN a ELSE b

\* let height = 8u32 (display.rs 159)
bar_height == 8

\* let progress = progress.min(100) (display.rs 160)
clamp_none(progress) == progress

clamp(progress) == min(progress, 100)

\* DisplayManager::draw_progress_bar(x, y, width, progress); oks[1] and
\* oks[2] are the outcomes of the outline and of the fill.
draw_progress_bar(x, y, width, progress, oks) ==
    LET p == clamp(progress)
        fill_width == (width * p) \div 100
        outline == draw_rectangle(x, y, width, bar_height, FALSE, oks[1])
        fill == draw_rectangle(x + 1, y + 1, saturating_sub(fill_width, 2),
                               saturating_sub(bar_height, 2), TRUE, oks[2])
    IN  IF outline.ret # Ok THEN outline
        ELSE IF fill_width > 0
        THEN [calls |-> outline.calls \o fill.calls, ret |-> fill.ret]
        ELSE [calls |-> outline.calls, ret |-> Ok]

\* Label::draw (framework.rs 66-68)
Label_draw(self, ok) ==
    draw_text(self.text, self.position.x, self.position.y, self.size, ok)

\* label.draw(&display)
LabelDraw(ok) ==
    LET r == Label_draw(label, ok)
    IN  /\ sink' = r.calls
        /\ sink_ret' = r.ret
        /\ sink_op' = [op |-> "Label::draw"]
        /\ UNCHANGED <<built, built_args, loading, load_obs, home, menu, ran>>
        /\ UNCHANGED base_vars

\* display.draw_progress_bar(x, y, width, progress)
DrawProgressBar(x, y, width, progress, oks) ==
    LET r == draw_progress_bar(x, y, width, progress, oks)
    IN  /\ sink' = r.calls
        /\ sink_ret' = r.ret
        /\ sink_op' = [op |-> "draw_progress_bar", x |-> x, y |-> y,
                        width |-> width, progress |-> progress, oks |-> oks]
        /\ UNCHANGED <<built, built_args, loading, load_obs, home, menu, ran>>
        /\ UNCHANGED base_vars

\* A display nothing was drawn on.
DisplayNew ==
    /\ sink = <<>>
    /\ sink_ret = Ok
    /\ sink_op = [op |-> "new"]

---------------------------------------------------------------------------
(* Button::new with its geometry (framework.rs 80-98).  Button_new above   *)
(* is the part of this value that handle_event reads and writes.           *)

\* The `/` of i32: the quotient rounded toward zero (divisor positive).
div(a, b) == IF a >= 0 THEN a \div b ELSE 0 - ((0 - a) \div b)

\* Button::new(text, x, y, width, height)
Button_layout(text, x, y, width, height_) ==
    LET label_x == x + div(width - Len(text) * 6, 2)
        label_y == y + div(height_ - 10, 2)
    IN  [label |-> Label_new(text, label_x, label_y, "Normal"),
         bounds |-> [x |-> x, y |-> y, width |-> width, height |-> height_],
         pressed |-> Button_new.pressed,
         on_click |-> Button_new.on_click]

\* A Button constructed by Button::new(text, x, y, width, height).
ButtonBuilt(text, x, y, width, height_) ==
    /\ built = Button_layout(text, x, y, width, height_)
    /\ built_args = [text |-> text, x |-> x, y |-> y, width |-> width,
                     height |-> height_]

\* let button = Button::new(text, x, y, width, height); no draw call is made
ButtonBuild(text, x, y, width, height_) ==
    /\ built' = Button_layout(text, x, y, width, height_)
    /\ built_args' = [text |-> text, x |-> x, y |-> y, width |-> width,
                      height |-> height_]
    /\ UNCHANGED <<sink, sink_ret, sink_op, loading, load_obs, home, menu, ran>>
    /\ UNCHANGED base_vars

---------------------------------------------------------------------------
(* LoadingScreen (src/src/ui/screens/loading.rs).  Screen::draw is one     *)
(* step that succeeds or fails as a whole; the draw call recorded is the   *)
(* screen with the progress its bar shows.                                 *)

\* Duration::from_millis(100) (loading.rs 25)
step_duration == 100

\* if self.progress < 100 (loading.rs 43), progress.min(100) (framework.rs 157)
full == 100

\* LoadingScreen::new at instant t
LoadingScreen_new(t) == [progress |-> 0, bar |-> 0, last_update |-> t]

\* LoadingScreen::draw
LoadingScreen_draw(self, ok) ==
    [calls |-> <<[op |-> "loading", progress |-> self.bar]>>,
     ret |-> draw_result(ok)]

\* self.last_update = now (loading.rs 49), reached only if draw() was Ok
stamp_always(self, t, drawn) == [self EXCEPT !.last_update = t]

stamp(self, t, drawn) ==
    IF drawn.ret = Ok THEN [self EXCEPT !.last_update = t] ELSE self

\* LoadingScreen::update at instant t: the screen afterwards, the Result,
\* the draw calls made and whether progress was incremented.
LoadingScreen_update(self, t, draw_ok) ==
    IF t - self.last_update >= step_duration
    THEN IF self.progress < full
         THEN LET stepped == [self EXCEPT !.progress = self.progress + 1,
                                          !.bar = min(self.progress + 1, full)]
                  drawn == LoadingScreen_draw(stepped, draw_ok)
              IN  [self |-> stamp(stepped, t, drawn), ret |-> drawn.ret,
                   calls |-> drawn.calls, stepped |-> TRUE]
         ELSE [self |-> [self EXCEPT !.last_update = t], ret |-> Ok,
               calls |-> <<>>, stepped |-> FALSE]
    ELSE [self |-> self, ret |-> Ok, calls |-> <<>>, stepped |-> FALSE]

\* LoadingScreen::is_complete
is_complete(self) == self.progress >= full

\* LoadingScreen::handle_event at instant t
LoadingScreen_handle_event(self, event, t, draw_ok) ==
    IF event = SystemTick
    THEN LET u == LoadingScreen_update(self, t, draw_ok)
         IN  [self |-> u.self, ret |-> TRUE, calls |-> u.calls,
              stepped |-> u.stepped]
    ELSE [self |-> self, ret |-> FALSE, calls |-> <<>>, stepped |-> FALSE]

\* A LoadingScreen constructed at instant t that has handled no event.
LoadingNew(t) ==
    /\ loading = LoadingScreen_new(t)
    /\ load_obs = [ticks |-> 0, last_tick |-> None, last_step |-> None]

\* loading.handle_event(event) at the instant `now`
LoadingHandleEvent(event, draw_ok) ==
    LET r == LoadingScreen_handle_event(loading, event, now, draw_ok)
    IN  /\ loading' = r.self
        /\ ret_ok' = r.ret
        /\ sink' = r.calls
        /\ sink_ret' = IF r.calls = <<>> THEN Ok ELSE draw_result(draw_ok)
        /\ load_obs' =
              [ticks |-> load_obs.ticks + IF event = SystemTick THEN 1 ELSE 0,
               last_tick |-> IF event = SystemTick THEN Some(now)
                             ELSE load_obs.last_tick,
               last_step |-> IF r.stepped THEN Some(now)
                             ELSE load_obs.last_step]
        /\ UNCHANGED <<sink_op, built, built_args, home, menu, ran>>
        /\ UNCHANGED <<now, queue, main_pc, button_vars, thread_vars,
                       sched_vars, tick_vars, widget_vars, ui_vars>>

\* The thread sleeps d ms.
LoadingSleep(d) ==
    /\ now' = now + d
    /\ UNCHANGED <<queue, ret_ok, main_pc, button_vars, thread_vars, sched_vars,
                   tick_vars, widget_vars, ui_vars, app_vars>>

---------------------------------------------------------------------------
(* HomeScreen (src/src/ui/screens/home.rs).  A text is the sequence of its *)
(* bytes, each written as a one-character string.                          *)

Digits == <<"0", "1", "2", "3", "4", "5", "6", "7", "8", "9">>

\* The decimal digits of n, as `{}` formats a u32.
RECURSIVE Decimal(_)
Decimal(n) ==
    IF n < 10 THEN <<Digits[n + 1]>>
    ELSE Decimal(n \div 10) \o <<Digits[(n % 10) + 1]>>

\* format!("Count: {}", counter) (home.rs 44)
format_count_plain(counter) == Decimal(counter)

format_count(counter) == <<"C", "o", "u", "n", "t", ":", " ">> \o Decimal(counter)

\* "System Ready", "Menu" (home.rs 19, 20)
SystemReady == <<"S", "y", "s", "t", "e", "m", " ", "R", "e", "a", "d", "y">>
MenuText == <<"M", "e", "n", "u">>

\* HomeScreen::new: the status label, the menu button with its logging
\* callback, the counter.
HomeScreen_new ==
    [status |-> Label_new(SystemReady, 5, 20, "Small"),
     menu_button |-> Button_set_on_click(Button_layout(MenuText, 5, 35, 50, 20),
                                         "log"),
     counter |-> 0]

\* HomeScreen::update_status(status)
update_status(self, status) ==
    [self EXCEPT !.status = Label_set_text(self.status, status)]

\* HomeScreen::increment_counter
increment_counter(self) ==
    update_status([self EXCEPT !.counter = self.counter + 1],
                  format_count(self.counter + 1))

\* HomeScreen::handle_event: the screen afterwards, the bool returned and
\* the callbacks invoked.
HomeScreen_handle_event(self, event) ==
    CASE event.type = "ButtonPressed" /\ event.arg = 26 ->
            LET b == Button_handle_event(self.menu_button, event)
            IN  [self |-> increment_counter([self EXCEPT !.menu_button = b.self]),
                 ret |-> TRUE, invoked |-> b.invoked]
      [] event.type = "ButtonReleased" /\ event.arg = 26 ->
            LET b == Button_handle_event(self.menu_button, event)
            IN  [self |-> [self EXCEPT !.menu_button = b.self],
                 ret |-> TRUE, invoked |-> b.invoked]
      [] OTHER -> [self |-> self, ret |-> FALSE, invoked |-> <<>>]

\* A HomeScreen that has handled no event.
HomeNew ==
    /\ home = HomeScreen_new
    /\ ran = <<>>

\* home.handle_event(event); `ran` records the callbacks invoked and
\* `delivered` every event handled.
HomeHandleEvent(event) ==
    LET r == HomeScreen_handle_event(home, event)
    IN  /\ home' = r.self
        /\ ret_ok' = r.ret
        /\ ran' = r.invoked
        /\ delivered' = Append(delivered,
                               [screen |-> "home", ev |-> event, ret |-> r.ret,
                                draws |-> <<>>, iter |-> iter])
        /\ UNCHANGED <<sink, sink_ret, sink_op, built, built_args, loading,
                       load_obs, menu>>
        /\ UNCHANGED <<screens, current_screen, halted, calls, draws, clicks,
                       iter>>
        /\ UNCHANGED <<now, queue, main_pc, button_vars, thread_vars,
                       sched_vars, tick_vars, widget_vars>>

---------------------------------------------------------------------------
(* MenuScreen (src/src/ui/screens/menu.rs).  An item is the name of its    *)
(* action; running an action is recorded in `ran`.                         *)

\* The pins MenuScreen::handle_event matches on (menu.rs 111, 115).
MENU_SELECT_PIN == 32
MENU_NAV_PIN == 33

\* MenuScreen::new
MenuScreen_new == [items |-> <<>>, selected_index |-> 0]

\* MenuScreen::add_item(text, action)
add_item(self, action) == [self EXCEPT !.items = Append(self.items, action)]

\* MenuScreen::draw
MenuScreen_draw(self, ok) ==
    [calls |-> <<[op |-> "menu", selected |-> self.selected_index]>>,
     ret |-> draw_result(ok)]

\* (self.selected_index + 1) % self.items.len() (menu.rs 64)
next_index_unwrapped(self) == self.selected_index + 1

next_index(self) == (self.selected_index + 1) % Len(self.items)

\* MenuScreen::select_next: the screen afterwards and the draw calls made.
select_next(self, draw_ok) ==
    IF self.items # <<>>
    THEN LET moved == [self EXCEPT !.selected_index = next_index(self)]
         IN  [self |-> moved, calls |-> MenuScreen_draw(moved, draw_ok).calls]
    ELSE [self |-> self, calls |-> <<>>]

\* MenuScreen::activate_selected: the actions run.
activate_selected(self) ==
    IF self.items # <<>> THEN <<self.items[self.selected_index + 1]>> ELSE <<>>

\* MenuScreen::handle_event
MenuScreen_handle_event(self, event, draw_ok) ==
    CASE event.type = "ButtonPressed" /\ event.arg = MENU_SELECT_PIN ->
            [self |-> self, ret |-> TRUE, ran |-> activate_selected(self),
             calls |-> <<>>]
      [] event.type = "ButtonPressed" /\ event.arg = MENU_NAV_PIN ->
            LET n == select_next(self, draw_ok)
            IN  [self |-> n.self, ret |-> TRUE, ran |-> <<>>, calls |-> n.calls]
      [] OTHER -> [self |-> self, ret |-> FALSE, ran |-> <<>>, calls |-> <<>>]

\* A MenuScreen without items.
MenuNew == menu = MenuScreen_new

\* menu.add_item(text, action)
MenuAddItem(action) ==
    /\ menu' = add_item(menu, action)
    /\ ran' = <<>>
    /\ sink' = <<>>
    /\ sink_ret' = Ok
    /\ ret_ok' = FALSE
    /\ UNCHANGED <<sink_op, built, built_args, loading, load_obs, home>>
    /\ UNCHANGED <<now, queue, main_pc, button_vars, thread_vars, sched_vars,
                   tick_vars, widget_vars, ui_vars>>

\* menu.handle_event(event)
MenuHandleEvent(event, draw_ok) ==
    LET r == MenuScreen_handle_event(menu, event, draw_ok)
    IN  /\ menu' = r.self
        /\ ret_ok' = r.ret
        /\ ran' = r.ran
        /\ sink' = r.calls
        /\ sink_ret' = IF r.calls = <<>> THEN Ok ELSE draw_result(draw_ok)
        /\ UNCHANGED <<sink_op, built, built_args, loading, load_obs, home>>
        /\ UNCHANGED <<now, queue, main_pc, button_vars, thread_vars,
                       sched_vars, tick_vars, widget_vars, ui_vars>>

\* A display, a laid-out button and reference screens that a run does not
\* use.
AppNew ==
    /\ DisplayNew
    /\ ButtonBuilt(<<>>, 0, 0, 0, 0)
    /\ LoadingNew(0)
    /\ HomeNew
    /\ MenuNew

---------------------------------------------------------------------------
(* Initial values of the parts a run does not use.                         *)

Producers == {"p1", "p2"}
Consumer == "c"
Threads == Producers \cup {Consumer}

\* EventQueue::new, and no thread inside push or pop.
QueueNew ==
    /\ queue = <<>>
    /\ queue_lock = NoOwner
    /\ pc = [t \in Threads |-> "idle"]
    /\ pushed = [p \in Producers |-> 0]
    /\ popped = <<>>
    /\ ret_ok = FALSE

\* A tick source, a label and a button that a run does not use, and a new
\* screen manager.
WidgetsNew ==
    /\ LabelNew(<<>>, 0, 0, "Normal")
    /\ button = Button_new

UiNew ==
    /\ SystemTickNew(0, 0)
    /\ WidgetsNew
    /\ ScreenManagerNew
    /\ AppNew

\* Scheduler::new
SchedulerNew ==
    /\ tasks = {}
    /\ next_id = 0
    /\ fired = <<>>
    /\ invocations = [i \in {} |-> 0]
    /\ issued = {}
    /\ cancelled = {}
    /\ ret_id = 0

---------------------------------------------------------------------------
(* A button source polled at arbitrary instants with arbitrary levels.     *)

InitButton ==
    /\ \E tc \in ConstructTimes : now = tc /\ ButtonNew(tc)
    /\ QueueNew
    /\ SchedulerNew
    /\ UiNew
    /\ period = 0

NextButton ==
    \/ /\ \E level \in BOOLEAN : ButtonPoll(level)
       /\ UNCHANGED main_pc
    \/ /\ ButtonTick
       /\ UNCHANGED main_pc

SpecButton == InitButton /\ [][NextButton]_vars

\* A step that is one poll(): the record of polls grew by the poll made.
IsPollStep == Len(polls') = Len(polls) + 1

\* C1: poll() pushes exactly one event iff the level read differs from
\* last_state and now - last_event >= debounce_time: ButtonPressed(pin) for
\* a low level, ButtonReleased(pin) for a high one, and it then sets
\* last_state to the level and last_event to now; otherwise it pushes
\* nothing and leaves last_state and last_event as they were.
C1_PollContract ==
    [][IsPollStep =>
        LET p == polls'[Len(polls')]
        IN  /\ p.at = now
            /\ IF p.level # last_state /\ now - last_event >= debounce_time
               THEN /\ queue' = Append(queue,
                                    IF p.level THEN ButtonReleased(pin_number)
                                    ELSE ButtonPressed(pin_number))
                    /\ last_state' = p.level
                    /\ last_event' = now
               ELSE /\ queue' = queue
                    /\ last_state' = last_state
                    /\ last_event' = last_event]_vars

\* C1's case: a poll exactly debounce_time after last_event was accepted
\* and another poll was rejected.
C1_Witness ==
    /\ emitted # <<>>
    /\ emitted[1].at - constructed_at = debounce_time
    /\ Len(polls) > Len(emitted)
    /\ Len(queue) = Len(emitted)

\* C2: any two events one source emitted are at least debounce_time apart,
\* and no poll made less than debounce_time after the last accepted
\* transition emitted an event.
C2_DebounceSpacing ==
    /\ \A i \in 1..Len(emitted) : \A j \in 1..Len(emitted) :
          i < j => emitted[j].at - emitted[i].at >= debounce_time
    /\ \A i \in 1..Len(emitted) : \A k \in 1..Len(polls) :
          /\ polls[k].at >= emitted[i].at
          /\ polls[k].at - emitted[i].at < debounce_time
          => \A j \in 1..Len(emitted) : j > i => emitted[j].at # polls[k].at

\* C2's case: two events were emitted and a poll with a changed level
\* inside the window was dropped.
C2_Witness ==
    /\ Len(emitted) >= 2
    /\ \E k \in 1..Len(polls) :
          /\ polls[k].at - emitted[1].at \in 1..(debounce_time - 1)
          /\ polls[k].level = (emitted[1].ev.type = "ButtonPressed")

\* The polls of scenario S3: low at 0, high at 10, low at 20, high at 60.
S3Polls ==
    <<[at |-> 0, level |-> FALSE], [at |-> 10, level |-> TRUE],
      [at |-> 20, level |-> FALSE], [at |-> 60, level |-> TRUE]>>

\* C3: a source constructed at any instant <= 0 and polled as in S3 has
\* emitted exactly ButtonPressed at 0 and ButtonReleased at 60.
C3_ScenarioS3 ==
    polls = S3Polls =>
        emitted = <<[ev |-> ButtonPressed(pin_number), at |-> 0],
                    [ev |-> ButtonReleased(pin_number), at |-> 60]>>

\* S3 as the code runs it when the source is at least debounce_time old at
\* the first poll.
S3_OldSource ==
    (polls = S3Polls /\ constructed_at <= 0 - debounce_time) =>
        emitted = <<[ev |-> ButtonPressed(pin_number), at |-> 0],
                    [ev |-> ButtonReleased(pin_number), at |-> 60]>>

---------------------------------------------------------------------------
(* EventQueue::push and EventQueue::pop called from several threads.  Each *)
(* call is two steps: lock() returns the guard; the deque operation runs   *)
(* and the guard is dropped at the end of the function.                    *)

ProducerNo(p) == IF p = "p1" THEN 1 ELSE 2

\* The n-th event producer p pushes: a Custom event that names p and n.
Tag(p, n) == ProducerNo(p) * (MaxPush + 1) + n
TagOwner(e) == e.arg \div (MaxPush + 1)

\* self.queue.lock().unwrap() in push (events.rs 29)
PushLock(p) ==
    /\ pc[p] = "idle"
    /\ pushed[p] < MaxPush
    /\ queue_lock = NoOwner
    /\ queue_lock' = p
    /\ pc' = [pc EXCEPT ![p] = "push"]
    /\ UNCHANGED <<tick_vars, app_vars, widget_vars, ui_vars>>
    /\ UNCHANGED <<now, queue, pushed, popped, button_vars, sched_vars, ret_ok>>

\* queue.push_back(event), guard dropped (events.rs 30-31)
PushBack(p) ==
    /\ pc[p] = "push"
    /\ queue_lock = p
    /\ queue' = push_back(queue, Custom(Tag(p, pushed[p] + 1)))
    /\ pushed' = [pushed EXCEPT ![p] = @ + 1]
    /\ queue_lock' = NoOwner
    /\ pc' = [pc EXCEPT ![p] = "idle"]
    /\ UNCHANGED <<tick_vars, app_vars, widget_vars, ui_vars>>
    /\ UNCHANGED <<now, popped, ret_ok, button_vars, sched_vars>>

\* self.queue.lock().unwrap() in pop (events.rs 34)
PopLock ==
    /\ pc[Consumer] = "idle"
    /\ queue_lock = NoOwner
    /\ queue_lock' = Consumer
    /\ pc' = [pc EXCEPT ![Consumer] = "pop"]
    /\ UNCHANGED <<tick_vars, app_vars, widget_vars, ui_vars>>
    /\ UNCHANGED <<now, queue, pushed, popped, button_vars, sched_vars, ret_ok>>

\* queue.pop_front(), guard dropped (events.rs 35-36); ret_ok records
\* whether the Option returned is Some.
PopFront ==
    /\ pc[Consumer] = "pop"
    /\ queue_lock = Consumer
    /\ LET r == pop_front(queue)
       IN  /\ queue' = r.rest
           /\ popped' = IF r.ret = None THEN popped
                        ELSE Append(popped, CHOOSE e \in r.ret : TRUE)
           /\ ret_ok' = (r.ret # None)
    /\ queue_lock' = NoOwner
    /\ pc' = [pc EXCEPT ![Consumer] = "idle"]
    /\ UNCHANGED <<tick_vars, app_vars, widget_vars, ui_vars>>
    /\ UNCHANGED <<now, pushed, button_vars, sched_vars>>

InitQueue ==
    /\ now = 0
    /\ QueueNew
    /\ ButtonNew(0)
    /\ SchedulerNew
    /\ UiNew
    /\ period = 0

NextQueue ==
    \/ /\ \E p \in Producers : PushLock(p)
       /\ UNCHANGED main_pc
    \/ /\ \E p \in Producers : PushBack(p)
       /\ UNCHANGED main_pc
    \/ /\ PopLock
       /\ UNCHANGED main_pc
    \/ /\ PopFront
       /\ UNCHANGED main_pc

SpecQueue == InitQueue /\ [][NextQueue]_vars

\* The events of producer p in a sequence of events, in order.
FromProducer(seq, p) == SelectSeq(seq, LAMBDA e : TagOwner(e) = ProducerNo(p))

\* C4: the events popped from each producer are in that producer's push
\* order, every pushed event is popped at most once and none is lost (what
\* was popped followed by what is queued is, per producer, exactly what it
\* pushed, in order), and pop() on an empty queue returns None and leaves
\* the queue as it was.
C4_Fifo ==
    /\ [](\A p \in Producers :
            FromProducer(popped \o queue, p)
                = [i \in 1..pushed[p] |-> Custom(Tag(p, i))])
    /\ [][(pc[Consumer] = "pop" /\ pc'[Consumer] = "idle") =>
            IF queue = <<>>
            THEN queue' = <<>> /\ popped' = popped /\ ~ret_ok'
            ELSE /\ queue' = Tail(queue)
                 /\ popped' = Append(popped, Head(queue))
                 /\ ret_ok']_vars

\* C4's case: both producers' events were popped interleaved, and a pop
\* found the queue empty.
C4_Witness ==
    /\ Len(popped) >= 3
    /\ \E i \in 1..Len(popped) - 1 : TagOwner(popped[i]) = 2 /\ TagOwner(popped[i + 1]) = 1
    /\ \E i \in 1..Len(popped) - 1 : TagOwner(popped[i]) = 1 /\ TagOwner(popped[i + 1]) = 2
    /\ ~ret_ok
    /\ queue = <<>>

---------------------------------------------------------------------------
(* A scheduler driven by arbitrary calls at arbitrary instants.            *)

InitSched ==
    /\ now = 0
    /\ QueueNew
    /\ ButtonNew(0)
    /\ SchedulerNew
    /\ UiNew
    /\ period = 0

NextSched ==
    \/ /\ next_id < MaxTasks
       /\ \E delay \in Delays : ScheduleOnce(delay)
       /\ UNCHANGED main_pc
    \/ /\ next_id < MaxTasks
       /\ \E delay \in Delays : \E interval \in Intervals :
             ScheduleRecurring(delay, interval)
       /\ UNCHANGED main_pc
    \/ /\ \E id \in 0..next_id : CancelTask(id)
       /\ UNCHANGED main_pc
    \/ /\ Len(queue) < MaxQueue
       /\ UpdateAt(now, CallbackMs)
       /\ now' <= MaxClock
       /\ UNCHANGED main_pc
    \/ /\ now < MaxClock
       /\ SchedTick
       /\ UNCHANGED main_pc

SpecSched == InitSched /\ [][NextSched]_vars

\* A step that is one update() call.
IsUpdateStep == UpdateAt(now, CallbackMs)

CountIn(inv, id) == IF id \in DOMAIN inv THEN inv[id] ELSE 0
TimerCount(q, id) == Len(SelectSeq(q, LAMBDA e : e = Timer(id)))
FiredIds(f) == {f[k].task.id : k \in 1..Len(f)}

\* What update() does apart from the instant a recurring task is
\* re-inserted for: it fires exactly the tasks with next_run <= now, each
\* once, callback then Timer(id) in the order fired, and leaves the tasks
\* that are not due alone.
UpdateFiresDue ==
    LET due == {t \in tasks : t.next_run <= now}
    IN  /\ Len(fired') = Cardinality(due)
        /\ {fired'[k].task : k \in 1..Len(fired')} = due
        /\ queue' = queue \o [k \in 1..Len(fired') |-> Timer(fired'[k].task.id)]
        /\ \A t \in due : CountIn(invocations', t.id) = CountIn(invocations, t.id) + 1
        /\ \A i \in DOMAIN invocations :
              i \notin {t.id : t \in due} => invocations'[i] = invocations[i]
        /\ \A t \in tasks : t.next_run > now => t \in tasks'
        /\ \A t \in due : t.interval = None => \A u \in tasks' : u.id # t.id
        /\ {u.id : u \in tasks'} \subseteq {t.id : t \in tasks}

\* C5 as stated: update() fires exactly the due tasks, removes the one-shot
\* ones, and re-inserts each recurring one with the same id and interval
\* and next_run = now + interval, now being the instant update() began.
C5_UpdateContract ==
    [][IsUpdateStep =>
        /\ UpdateFiresDue
        /\ \A k \in 1..Len(fired') :
              LET t == fired'[k].task
              IN  t.interval # None =>
                    \E u \in tasks' :
                        /\ u.id = t.id
                        /\ u.interval = t.interval
                        /\ u.next_run = now + Unwrap(t.interval)]_vars

\* C5 amended: as C5, but a recurring task is re-inserted with next_run =
\* c + interval, c >= now being the clock when its callback has returned
\* (c = now when no callback of this update() took time).
C5_UpdateContractAmended ==
    [][IsUpdateStep =>
        /\ UpdateFiresDue
        /\ \A k \in 1..Len(fired') :
              LET t == fired'[k].task
              IN  /\ fired'[k].done >= now
                  /\ fired'[k].done <= now'
                  /\ now' = now => fired'[k].done = now
                  /\ t.interval # None =>
                        \E u \in tasks' :
                            /\ u.id = t.id
                            /\ u.interval = t.interval
                            /\ u.next_run = fired'[k].done + Unwrap(t.interval)]_vars

\* C5's case: an update() fired a recurring task whose callback took time
\* and re-inserted it, and left a task that was not due in the heap.
C5_Witness ==
    /\ \E k \in 1..Len(fired) :
          /\ fired[k].task.interval # None
          /\ fired[k].done > fired[k].task.next_run
          /\ fired[k].done + Unwrap(fired[k].task.interval) > now
          /\ \E u \in tasks : u.id = fired[k].task.id
    /\ \E u \in tasks : u.id \notin FiredIds(fired) /\ u.next_run > now

\* C6: once cancel_task(id) has returned for a task id, no step invokes
\* that task's callback or pushes Timer(id) again.
C6_CancelledNeverFires ==
    [][\A id \in cancelled :
          /\ CountIn(invocations', id) = CountIn(invocations, id)
          /\ TimerCount(queue', id) = TimerCount(queue, id)
          /\ id \notin FiredIds(fired')]_vars

\* C6's case: a recurring task that had fired and been re-inserted was
\* cancelled (the cancel is the only one made and it removed the task), and
\* an update() has just fired another task.
C6_Witness ==
    \E id \in cancelled :
        /\ cancelled = {id}
        /\ CountIn(invocations, id) >= 1
        /\ fired # <<>>
        /\ id \notin FiredIds(fired)
        /\ \A t \in tasks : t.id # id

\* C7: cancel_task(id) returns true iff a task with that id was in the
\* heap; then exactly that task is removed and the others are as they
\* were; when it returns false the heap is as it was.
C7_CancelContract ==
    [][\A id \in 0..MaxTasks : CancelTask(id) =>
          /\ ret_ok' <=> (\E t \in tasks : t.id = id)
          /\ tasks' = {t \in tasks : t.id # id}
          /\ ret_ok' => Cardinality(tasks') = Cardinality(tasks) - 1
          /\ ~ret_ok' => tasks' = tasks]_vars

\* C7's case: a cancel has just removed one task and left another.
C7_Witness ==
    /\ ret_ok
    /\ tasks # {}
    /\ \E id \in cancelled : \A t \in tasks : t.id # id

\* C8: every schedule call returns an id greater than every id returned
\* before, no two tasks in the heap share an id, and update() re-inserts a
\* recurring task under the id it had.
C8_FreshIds ==
    /\ [](\A t \in tasks : \A u \in tasks : t.id = u.id => t = u)
    /\ [][(\E d \in Delays : ScheduleOnce(d)
                \/ \E i \in Intervals : ScheduleRecurring(d, i)) =>
             /\ \A i \in issued : ret_id' > i
             /\ \E t \in tasks' : t.id = ret_id' /\ t \notin tasks]_vars
    /\ [][IsUpdateStep =>
             \A k \in 1..Len(fired') :
                LET t == fired'[k].task
                IN  t.interval # None =>
                      /\ \E u \in tasks' : u.id = t.id /\ u.interval = t.interval
                      /\ {u.id : u \in tasks'} \subseteq {u.id : u \in tasks}]_vars

\* C8's case: two ids were handed out and a recurring task has fired and is
\* back in the heap.
C8_Witness ==
    /\ Cardinality(issued) >= 2
    /\ \E t \in tasks : t.interval # None /\ CountIn(invocations, t.id) >= 1
    /\ Cardinality(tasks) >= 2

\* C9: the tasks one update() fires are fired, and their Timer events
\* pushed, in non-decreasing next_run order.
C9_FiredInOrder ==
    /\ \A i \in 1..Len(fired) : \A j \in 1..Len(fired) :
          i < j => fired[i].task.next_run <= fired[j].task.next_run
    /\ Len(queue) >= Len(fired)
    /\ \A k \in 1..Len(fired) :
          queue[Len(queue) - Len(fired) + k] = Timer(fired[k].task.id)

\* C9's case: an update() made after both were due has fired two one-shot
\* tasks with different next_run.
C9_Witness ==
    /\ Len(fired) >= 2
    /\ \A k \in 1..Len(fired) : fired[k].task.interval = None
    /\ fired[1].task.next_run < fired[2].task.next_run
    /\ fired[1].done > fired[2].task.next_run

---------------------------------------------------------------------------
(* One recurring task driven by a loop that sleeps `period` ms and calls   *)
(* update(), on a simulated clock: callbacks take no time.                 *)

InitPeriodic ==
    /\ now = 0
    /\ QueueNew
    /\ ButtonNew(0)
    /\ SchedulerNew
    /\ UiNew
    /\ period \in 1..MaxInterval

\* schedule_recurring(delay, interval, cb) at instant 0, with the first
\* delay at most the interval and the loop's period not larger than it.
PeriodicStart ==
    /\ next_id = 0
    /\ now = 0
    /\ \E interval \in 1..MaxInterval : \E delay \in 0..interval :
          /\ period <= interval
          /\ ScheduleRecurring(delay, interval)

\* One iteration of the loop: sleep(period); update().
PeriodicUpdate ==
    /\ next_id > 0
    /\ now + period <= MaxPeriodic
    /\ UpdateAt(now + period, {0})

NextPeriodic ==
    \/ /\ PeriodicStart
       /\ UNCHANGED main_pc
    \/ /\ PeriodicUpdate
       /\ UNCHANGED main_pc

SpecPeriodic == InitPeriodic /\ [][NextPeriodic]_vars

\* C10: after every update() of the loop, at elapsed time T = now, the
\* recurring task with interval I has run floor(T/I) or floor(T/I)+1 times.
C10_RecurringStability ==
    \A t \in tasks :
        LET I == Unwrap(t.interval)
            n == CountIn(invocations, t.id)
        IN  n = now \div I \/ n = now \div I + 1

\* The half of C10 the code keeps: never more than floor(T/I)+1 runs.
RecurringNeverMore ==
    \A t \in tasks :
        CountIn(invocations, t.id) <= now \div Unwrap(t.interval) + 1

---------------------------------------------------------------------------
(* Scenario S5: a recurring task with first delay and interval 10 ms,      *)
(* scheduled at 0; a loop that sleeps `period` ms and calls update(), on a *)
(* simulated clock; cancel_task when the clock has reached 35 ms; then the *)
(* same loop for another 100 ms.                                           *)

S5 == [delay |-> 10, interval |-> 10, cancel_at |-> 35, more |-> 100]
S5Periods == 1..10

InitS5 ==
    /\ now = 0
    /\ QueueNew
    /\ ButtonNew(0)
    /\ SchedulerNew
    /\ UiNew
    /\ period \in S5Periods

S5Start ==
    /\ next_id = 0
    /\ ScheduleRecurring(S5.delay, S5.interval)

\* One iteration of the loop: sleep(period); update().
S5Update ==
    /\ next_id > 0
    /\ now + period <= IF cancelled = {} THEN S5.cancel_at
                       ELSE S5.cancel_at + S5.more
    /\ UpdateAt(now + period, {0})

\* cancel_task(X) once the next update() would come after 35 ms.
S5Cancel ==
    /\ next_id > 0
    /\ cancelled = {}
    /\ now + period > S5.cancel_at
    /\ CancelTask(ret_id)

NextS5 ==
    \/ /\ S5Start
       /\ UNCHANGED main_pc
    \/ /\ S5Update
       /\ UNCHANGED main_pc
    \/ /\ S5Cancel
       /\ UNCHANGED main_pc

SpecS5 == InitS5 /\ [][NextS5]_vars

\* C11: in scenario S5, for every update period from 1 to 10 ms, the task
\* has been invoked exactly 3 times when it is cancelled at 35 ms, and the
\* total is still 3 during the 100 ms that follow.
C11_ScenarioS5 ==
    cancelled # {} => CountIn(invocations, ret_id) = 3

\* The half of S5 the code keeps: after cancel_task the total never moves.
S5_CancelKeepsTotal ==
    [][cancelled # {} => invocations' = invocations]_vars

\* S5 as the code runs it when the period divides the interval.
S5_DividingPeriods ==
    (cancelled # {} /\ S5.interval % period = 0) =>
        CountIn(invocations, ret_id) = 3

---------------------------------------------------------------------------
(* A tick source polled at arbitrary instants.                             *)

InitTick ==
    /\ now = 0
    /\ QueueNew
    /\ ButtonNew(0)
    /\ SchedulerNew
    /\ period = 0
    /\ \E interval \in TickIntervals : SystemTickNew(0, interval)
    /\ WidgetsNew
    /\ ScreenManagerNew
    /\ AppNew

NextTick ==
    \/ /\ Len(tick_polls) < MaxPolls
       /\ SystemTickPoll
       /\ UNCHANGED main_pc
    \/ /\ ButtonTick
       /\ UNCHANGED main_pc

SpecTick == InitTick /\ [][NextTick]_vars

\* C12: poll() pushes one SystemTick and sets last_triggered = now iff
\* now - last_triggered >= interval, however many intervals have passed;
\* otherwise it pushes nothing and leaves last_triggered as it was; so two
\* consecutive ticks are at least interval apart.
C12_TickContract ==
    /\ [][SystemTickPoll =>
            IF now - last_triggered >= tick_interval
            THEN /\ queue' = Append(queue, SystemTick)
                 /\ last_triggered' = now
            ELSE /\ queue' = queue
                 /\ last_triggered' = last_triggered]_vars
    /\ [](\A i \in 1..Len(emitted) : \A j \in 1..Len(emitted) :
            i < j => emitted[j].at - emitted[i].at >= tick_interval)
    /\ [](Len(queue) <= Len(tick_polls))

\* C12's case: a poll made two or more intervals after the previous tick
\* pushed one tick only, and a poll inside the interval pushed none.
C12_Witness ==
    /\ tick_interval > 0
    /\ Len(emitted) >= 2
    /\ emitted[2].at - emitted[1].at >= 2 * tick_interval
    /\ Len(queue) = 2
    /\ \E k \in 1..Len(tick_polls) :
          /\ tick_polls[k] > emitted[1].at
          /\ tick_polls[k] < emitted[1].at + tick_interval

---------------------------------------------------------------------------
(* The main loop: each iteration polls the button source and the tick      *)
(* source, calls Scheduler::update, then ScreenManager::process_events,    *)
(* then sleeps.  A one-shot and a recurring task are scheduled and the     *)
(* screen is added before the loop is entered; callbacks take no time and  *)
(* the display draws without error.                                        *)

MaxIter == 2            \* number of the last iteration of the main loop

\* The screen the application shows: a label and two buttons.
LoopScreen ==
    DefaultScreen(<<LabelWidget(Label_new(<<>>, 0, 0, "Normal")),
                    ButtonWidget(Button_set_on_click(Button_new, "log")),
                    ButtonWidget(Button_new)>>)

InitLoop ==
    /\ now = 0
    /\ QueueNew
    /\ SchedulerNew
    /\ period = 0
    /\ \E tc \in ConstructTimes : ButtonNew(tc)
    /\ \E interval \in TickIntervals : SystemTickNew(0, interval)
    /\ WidgetsNew
    /\ ScreenManagerNew
    /\ AppNew

\* The loop is entered.
LoopStart ==
    /\ main_pc = "idle"
    /\ screens # <<>>
    /\ main_pc' = "poll_button"
    /\ UNCHANGED <<now, queue, ret_ok, button_vars, thread_vars, sched_vars,
                   tick_vars, app_vars, widget_vars, ui_vars>>

\* The fixed sleep at the bottom of the loop.
LoopSleep ==
    /\ main_pc = "sleep"
    /\ iter < MaxIter
    /\ main_pc' = "poll_button"
    /\ iter' = iter + 1
    /\ now' = now + TimeStep
    /\ calls' = <<>>
    /\ draws' = <<>>
    /\ UNCHANGED <<screens, current_screen, halted, delivered, clicks>>
    /\ UNCHANGED <<queue, ret_ok, button_vars, thread_vars, sched_vars,
                   tick_vars, app_vars, widget_vars>>

NextLoop ==
    \/ /\ main_pc = "idle"
       /\ next_id = 0
       /\ \E delay \in Delays : ScheduleOnce(delay)
       /\ UNCHANGED main_pc
    \/ /\ main_pc = "idle"
       /\ next_id = 1
       /\ \E delay \in Delays : \E interval \in Intervals :
             ScheduleRecurring(delay, interval)
       /\ UNCHANGED main_pc
    \/ /\ screens = <<>>
       /\ AddScreen(LoopScreen)
    \/ LoopStart
    \/ /\ main_pc = "poll_button"
       /\ \E level \in BOOLEAN : ButtonPoll(level)
       /\ main_pc' = "poll_tick"
    \/ /\ main_pc = "poll_tick"
       /\ SystemTickPoll
       /\ main_pc' = "update"
    \/ /\ main_pc = "update"
       /\ UpdateAt(now, {0})
       /\ main_pc' = "process"
    \/ ProcessLock("process")
    \/ ProcessDispatch({TRUE})
    \/ ProcessReturn("sleep")
    \/ LoopSleep

SpecLoop == InitLoop /\ [][NextLoop]_vars

IsInput(event) == event.type \in {"ButtonPressed", "ButtonReleased", "SystemTick"}

---------------------------------------------------------------------------
(* A screen manager driven by arbitrary calls: screens are added and       *)
(* switched to; then events are pushed on the queue and process_events is  *)
(* called, in any order.                                                   *)

MaxScreens == 2         \* screens added
MaxEvents == 2          \* events pushed

\* The events pushed: the select pin pressed and released, and a tick.
ManagerEvents ==
    {ButtonPressed(SELECT_PIN), ButtonReleased(SELECT_PIN), SystemTick}

InitManager ==
    /\ now = 0
    /\ QueueNew
    /\ ButtonNew(0)
    /\ SchedulerNew
    /\ period = 0
    /\ UiNew

NextManager ==
    \/ /\ Len(screens) < MaxScreens
       /\ queue = <<>> /\ delivered = <<>>
       /\ \E screen \in ScreenChoices : AddScreen(screen)
    \/ /\ queue = <<>> /\ delivered = <<>>
       /\ \E index \in 0..MaxScreens : SwitchToScreen(index)
    \/ /\ Len(queue) + Len(delivered) < MaxEvents
       /\ \E event \in ManagerEvents : PushEvent(event)
    \/ ProcessLock("idle")
    \/ ProcessDispatch(BOOLEAN)
    \/ ProcessReturn("idle")

SpecManager == InitManager /\ [][NextManager]_vars

\* A step that is one turn of process_events' loop with an active screen.
IsDispatchStep == ProcessDispatch(BOOLEAN) /\ current_screen < Len(screens)

\* The last Screen::handle_event call that returned.
LastDelivered(d) == d[Len(d)]

\* C14: inside process_events with an active screen, every step either
\* pops the head of the queue and passes it, once, to handle_event of the
\* screen at current_screen and to no other screen, whether or not that
\* screen handles it, or finds the queue empty and returns Ok; so a call
\* that returns has passed every queued event in FIFO order and left the
\* queue empty, and nothing is put back.
C14_ProcessEventsDrains ==
    [][(main_pc = "dispatch" /\ current_screen < Len(screens)
            /\ halted' = "running") =>
          \/ /\ queue # <<>>
             /\ queue' = Tail(queue)
             /\ delivered' = Append(delivered, LastDelivered(delivered'))
             /\ LastDelivered(delivered').ev = Head(queue)
             /\ LastDelivered(delivered').screen = current_screen
             /\ \A k \in 1..Len(screens) :
                   k # current_screen + 1 => screens'[k] = screens[k]
             /\ main_pc' = "dispatch"
          \/ /\ queue = <<>>
             /\ queue' = <<>>
             /\ delivered' = delivered
             /\ screens' = screens
             /\ main_pc' = "idle"
             /\ ret_ok']_vars

\* C14's case: with two screens and the second active, process_events has
\* returned after passing two events to the second screen, one of which it
\* did not handle; the first screen was not touched.
C14_Witness ==
    /\ Len(screens) = 2
    /\ current_screen = 1
    /\ main_pc = "idle"
    /\ ret_ok
    /\ queue = <<>>
    /\ Len(delivered) = 2
    /\ \A k \in 1..2 : delivered[k].screen = 1
    /\ delivered[1].ret /\ ~delivered[2].ret
    /\ screens[1] \in ScreenChoices
    /\ screens[2] \notin ScreenChoices

\* C15: the queue's lock is not held while handle_event runs, and no
\* callback that pushes on the queue during dispatch stops the thread.
C15_DispatchUnlocked ==
    /\ [][IsDispatchStep => queue_lock = NoOwner]_vars
    /\ [](halted \notin {"deadlock", "lock_panic"})

\* What the code does instead: handle_event runs with the lock held.
DispatchHoldsLock ==
    [][IsDispatchStep => queue_lock = Main]_vars

\* C16: switch_to_screen(i) with i < screens.len() sets current_screen to
\* i, draws that screen once and returns the draw's Result; with
\* i >= screens.len() it returns Ok, draws nothing and leaves
\* current_screen as it was.
C16_SwitchContract ==
    [][\A i \in 0..MaxScreens : SwitchToScreen(i) =>
          IF i < Len(screens)
          THEN /\ current_screen' = i
               /\ Len(draws') = 1
               /\ draws'[1].screen = i
               /\ ret_ok' = draws'[1].ok
               /\ screens' = screens
          ELSE /\ ret_ok'
               /\ draws' = <<>>
               /\ current_screen' = current_screen
               /\ screens' = screens]_vars

\* C16's case: a switch to the second screen whose draw failed has just
\* returned Err, and the second screen is the current one.
C16_Witness ==
    /\ Len(screens) = 2
    /\ current_screen = 1
    /\ draws = <<[screen |-> 1, ok |-> FALSE]>>
    /\ ~ret_ok
    /\ delivered = <<>>

\* The widgets of a screen that would handle the event.
Handlers(widgets, event) ==
    {k \in 1..Len(widgets) : Widget_handle_event(widgets[k], event).ret}

Min(S) == CHOOSE x \in S : \A y \in S : x <= y

\* C17: DefaultScreen::handle_event offers the event to the widgets in
\* insertion order up to the first that returns true; that widget is the
\* only one whose state changes; the screen redraws once iff a widget
\* handled the event and returns true iff one did.
C17_FirstHandlerOnly ==
    [][(IsDispatchStep /\ halted' = "running") =>
          LET at == current_screen + 1
              ws == screens[at].widgets
              hs == Handlers(ws, Head(queue))
              last == IF hs = {} THEN Len(ws) ELSE Min(hs)
          IN  /\ calls' = [k \in 1..last |-> k]
              /\ \A k \in 1..Len(ws) :
                    (hs = {} \/ k # Min(hs)) => screens'[at].widgets[k] = ws[k]
              /\ Len(screens'[at].widgets) = Len(ws)
              /\ Len(draws') = IF hs = {} THEN 0 ELSE 1
              /\ LastDelivered(delivered').ret = (hs # {})]_vars

\* C17's case: a screen with a label and two buttons has just handled
\* ButtonPressed: the label was asked first, the first button took it and
\* is pressed, the second was not asked and is not pressed; one redraw.
C17_Witness ==
    /\ calls = <<1, 2>>
    /\ Len(draws) = 1
    /\ delivered # <<>>
    /\ LastDelivered(delivered).ret
    /\ LastDelivered(delivered).ev = ButtonPressed(SELECT_PIN)
    /\ LET ws == screens[current_screen + 1].widgets
       IN  /\ Len(ws) = 3
           /\ ws[2].w.pressed
           /\ ~ws[3].w.pressed

\* C18: a failed repaint changes nothing else: the screen's widgets, the
\* callbacks run and the value handle_event returns are those of a
\* successful draw, the loop of process_events goes on, process_events
\* returns Ok, and once a redraw has failed every later handled event
\* still attempts its draw.
C18_DrawFailureNonFatal ==
    /\ [][(IsDispatchStep /\ halted' = "running") =>
            LET at == current_screen + 1
                h == DefaultScreen_handle_event(screens[at], Head(queue), TRUE)
                failed_before == \E k \in 1..Len(delivered) :
                                    \E n \in 1..Len(delivered[k].draws) :
                                       ~delivered[k].draws[n]
            IN  /\ screens'[at] = h.self
                /\ LastDelivered(delivered').ret = h.ret
                /\ clicks' = clicks + Len(h.invoked)
                /\ main_pc' = "dispatch"
                /\ queue' = Tail(queue)
                /\ (failed_before /\ h.ret) => Len(draws') = 1]_vars
    /\ [][(main_pc = "dispatch" /\ main_pc' = "idle") => ret_ok']_vars

\* C18's case: the redraw after a handled ButtonPressed failed, the button
\* is pressed all the same, the next event was handled and its redraw
\* attempted, and process_events has returned Ok.
C18_Witness ==
    /\ Len(delivered) = 2
    /\ delivered[1].ev = ButtonPressed(SELECT_PIN)
    /\ delivered[1].ret
    /\ delivered[1].draws = <<FALSE>>
    /\ delivered[2].ev = ButtonReleased(SELECT_PIN)
    /\ delivered[2].ret
    /\ Len(delivered[2].draws) = 1
    /\ clicks = 1
    /\ main_pc = "idle"
    /\ ret_ok

---------------------------------------------------------------------------
(* A label and a button on their own: the label is constructed with any    *)
(* text, position and size and its text is set any number of times; the    *)
(* button is given a callback or not and handles any event.                *)

MaxLen == 2             \* longest text, bytes
MaxClicks == 2          \* on_click invocations counted

RECURSIVE Texts(_)
Texts(n) ==
    IF n = 0 THEN {<<>>}
    ELSE Texts(n - 1) \cup
         {Append(t, c) : t \in {u \in Texts(n - 1) : Len(u) = n - 1},
                         c \in {"a", "b"}}

Coordinates == {0 - 3, 0, 5}

\* The events a button is offered: both pins pressed and released, a timer,
\* a tick and a custom event.
WidgetEvents ==
    {ButtonPressed(SELECT_PIN), ButtonReleased(SELECT_PIN), ButtonPressed(25),
     ButtonReleased(25), Timer(SELECT_PIN), SystemTick, Custom(0)}

InitWidget ==
    /\ now = 0
    /\ QueueNew
    /\ ButtonNew(0)
    /\ SchedulerNew
    /\ period = 0
    /\ SystemTickNew(0, 0)
    /\ ScreenManagerNew
    /\ AppNew
    /\ button = Button_new
    /\ \E text \in Texts(MaxLen) : \E x \in Coordinates : \E y \in Coordinates :
          \E size \in TextSizes : LabelNew(text, x, y, size)

NextWidget ==
    \/ \E text \in Texts(MaxLen) : LabelSetText(text)
    \/ ButtonSetOnClick("log")
    \/ /\ clicks < MaxClicks
       /\ \E event \in WidgetEvents : ButtonHandleEvent(event)

SpecWidget == InitWidget /\ [][NextWidget]_vars

\* C19: Button::handle_event on ButtonPressed(26) sets pressed, invokes
\* nothing and returns true; on ButtonReleased(26) it clears pressed,
\* invokes on_click once if one is set and returns true; on any other
\* event it returns false, leaves pressed alone and invokes nothing.
C19_ButtonContract ==
    [][\A event \in WidgetEvents : ButtonHandleEvent(event) =>
          /\ button'.on_click = button.on_click
          /\ IF event.type = "ButtonPressed" /\ event.arg = 26
             THEN /\ button'.pressed
                  /\ clicks' = clicks
                  /\ ret_ok'
             ELSE IF event.type = "ButtonReleased" /\ event.arg = 26
             THEN /\ ~button'.pressed
                  /\ clicks' = clicks + IF button.on_click = None THEN 0 ELSE 1
                  /\ ret_ok'
             ELSE /\ button'.pressed = button.pressed
                  /\ clicks' = clicks
                  /\ ~ret_ok']_vars

\* C19's case: a button with a callback has been pressed and released: the
\* callback ran once, the button is not pressed; then an event that is not
\* for it was refused.
C19_Witness ==
    /\ button.on_click # None
    /\ ~button.pressed
    /\ clicks = 1
    /\ ~ret_ok

\* C20: whatever texts were set, the label is as wide as its text is long
\* times the glyph width of its size (so the width divided by the glyph
\* width is the length), as high as the line of its size, and its
\* position, bounds.x, bounds.y and size are those it was constructed with.
C20_LabelInvariant ==
    /\ label.bounds.width = Len(label.text) * char_width(label.size)
    /\ label.bounds.width \div char_width(label.size) = Len(label.text)
    /\ label.bounds.height = height(label.size)
    /\ label.size = label_args.size
    /\ label.position = [x |-> label_args.x, y |-> label_args.y]
    /\ label.bounds.x = label_args.x
    /\ label.bounds.y = label_args.y

\* C20's case: a label constructed with a text has had a longer text set.
C20_Witness ==
    /\ label.text # label_args.text
    /\ Len(label.text) > Len(label_args.text)
    /\ label_args.text # <<>>
    /\ label.size = "Large"
    /\ label.bounds.x < 0

---------------------------------------------------------------------------
(* The display on its own: a label of any text and size is drawn, and a    *)
(* progress bar of any position, width and progress is drawn; each         *)
(* primitive succeeds or fails.                                            *)

BarWidths == {0, 3, 99, 100, 108, 299, 300, 399, 400}
Progresses == {0, 1, 50, 100, 101, 255}
BarOrigins == {<<0 - 3, 5>>, <<10, 45>>}
DisplayTexts == {<<>>, <<"a", "b">>}

InitDisplay ==
    /\ now = 0
    /\ QueueNew
    /\ ButtonNew(0)
    /\ SchedulerNew
    /\ period = 0
    /\ SystemTickNew(0, 0)
    /\ ScreenManagerNew
    /\ AppNew
    /\ button = Button_new
    /\ \E text \in DisplayTexts : \E size \in TextSizes :
          LabelNew(text, 10, 30, size)

NextDisplay ==
    \/ \E ok \in BOOLEAN : LabelDraw(ok)
    \/ \E at \in BarOrigins : \E width \in BarWidths :
          \E progress \in Progresses : \E oks \in [1..2 -> BOOLEAN] :
             DrawProgressBar(at[1], at[2], width, progress, oks)

SpecDisplay == InitDisplay /\ [][NextDisplay]_vars

\* C21: for every TextSize, the glyph width and line height a label
\* computes its bounds with are those of the font draw_text draws its text
\* with.
C21_MetricsMatch ==
    \A k \in 1..Len(sink) :
        sink[k].op = "text" =>
            /\ char_width(label.size) = sink[k].font.char_w
            /\ height(label.size) = sink[k].font.line_h
            /\ label.bounds.width = Len(sink[k].text) * sink[k].font.char_w
            /\ label.bounds.height = sink[k].font.line_h

\* What holds instead: the metrics agree for TextSize::Normal only.
MetricsMatchNormal ==
    \A k \in 1..Len(sink) :
        sink[k].op = "text" =>
            (label.size = "Normal" <=>
                /\ char_width(label.size) = sink[k].font.char_w
                /\ height(label.size) = sink[k].font.line_h)

\* The display's last operation was draw_progress_bar.
BarDrawn == sink_op.op = "draw_progress_bar"

\* C22: draw_progress_bar(x, y, w, p) issues the unfilled rectangle
\* (x, y, w, 8) and then, iff fill_width = w * min(p, 100) / 100 > 0, the
\* filled rectangle (x + 1, y + 1, fill_width - 2 or 0, 6); p >= 100 draws
\* what p = 100 draws, p = 0 draws the outline only; when the outline fails
\* the fill is not attempted and the error is returned.
C22_ProgressBarCalls ==
    BarDrawn =>
       LET x == sink_op.x
           y == sink_op.y
           width == sink_op.width
           progress == sink_op.progress
           oks == sink_op.oks
           fill_width ==
               (width * (IF progress < 100 THEN progress ELSE 100)) \div 100
           outline == [op |-> "rect", x |-> x, y |-> y, width |-> width,
                       height |-> 8, filled |-> FALSE]
           fill == [op |-> "rect", x |-> x + 1, y |-> y + 1,
                    width |-> IF fill_width >= 2 THEN fill_width - 2 ELSE 0,
                    height |-> 6, filled |-> TRUE]
       IN  /\ oks[1] /\ fill_width > 0 => sink = <<outline, fill>>
           /\ oks[1] /\ fill_width = 0 => sink = <<outline>>
           /\ ~oks[1] => sink = <<outline>> /\ sink_ret = DrawError
           /\ progress = 0 => sink = <<outline>>
           /\ oks[1] /\ progress >= 100 /\ width > 0 =>
                 sink = <<outline,
                          [fill EXCEPT !.width = IF width >= 2 THEN width - 2
                                                 ELSE 0]>>
           /\ sink_ret = Ok <=> oks[1] /\ (fill_width = 0 \/ oks[2])

\* C22's case: a bar 108 wide was drawn with progress 255: the outline and
\* a fill 106 wide, as for progress 100.
C22_Witness ==
    /\ BarDrawn
    /\ sink_op.x = 10
    /\ sink_op.width = 108
    /\ sink_op.progress = 255
    /\ Len(sink) = 2
    /\ sink[2].width = 106
    /\ sink[2].x = 11
    /\ sink_ret = Ok

\* C23: with progress 1 and a width of at least 3 the bar gets a filled
\* inner rectangle exactly 1 pixel wide.
C23_OnePixelFill ==
    BarDrawn /\ sink_op.progress = 1 /\ sink_op.width >= 3 /\ sink_op.oks[1] =>
       /\ Len(sink) = 2
       /\ sink[2].filled
       /\ sink[2].width = 1

\* C23 amended: with progress 1 the fill is issued iff the width is at
\* least 100, and is floor(width / 100) - 2 wide, or 0 below 300; it is
\* exactly 1 pixel wide iff 300 <= width <= 399.
C23_OnePixelFillAmended ==
    BarDrawn /\ sink_op.progress = 1 /\ sink_op.oks[1] =>
       /\ Len(sink) = 2 <=> sink_op.width >= 100
       /\ Len(sink) = 2 =>
             /\ sink[2].filled
             /\ sink[2].width = IF sink_op.width < 300 THEN 0
                                ELSE (sink_op.width \div 100) - 2
             /\ sink[2].width = 1 <=>
                   (300 <= sink_op.width /\ sink_op.width <= 399)

\* C23's case: a bar 399 wide was drawn with progress 1 and got a fill 1
\* pixel wide.
C23_Witness ==
    /\ BarDrawn
    /\ sink_op.progress = 1
    /\ sink_op.width = 399
    /\ Len(sink) = 2
    /\ sink[2].width = 1

---------------------------------------------------------------------------
(* Button::new on its own: buttons of any text, origin, width and height,  *)
(* narrower and lower than their text included.                            *)

ButtonOrigins == {<<0, 0>>, <<0 - 3, 5>>}
ButtonWidths == {0, 5, 6, 7, 13, 50}
ButtonHeights == {0, 9, 10, 11, 20}

InitLayout ==
    /\ now = 0
    /\ QueueNew
    /\ ButtonNew(0)
    /\ SchedulerNew
    /\ period = 0
    /\ UiNew

NextLayout ==
    \E text \in Texts(MaxLen) : \E at \in ButtonOrigins :
       \E width \in ButtonWidths : \E height_ \in ButtonHeights :
          ButtonBuild(text, at[1], at[2], width, height_)

SpecLayout == InitLayout /\ [][NextLayout]_vars

\* C24: the label of a button is centred by floor division: label.x =
\* bounds.x + floor((bounds.width - len * char_w) / 2) and label.y =
\* bounds.y + floor((bounds.height - line_h) / 2), also when the text is
\* wider or higher than the button.
C24_LabelCentered ==
    LET l == built.label
        b == built.bounds
    IN  /\ l.position.x =
              b.x + ((b.width - Len(l.text) * char_width(l.size)) \div 2)
        /\ l.position.y = b.y + ((b.height - height(l.size)) \div 2)

\* What holds instead: the quotients are rounded toward zero, which is the
\* floor when the text fits and one more than the floor when the numerator
\* is negative and odd.
LabelCenteredTowardZero ==
    LET l == built.label
        b == built.bounds
        dx == b.width - Len(l.text) * char_width(l.size)
        dy == b.height - height(l.size)
    IN  /\ b = [x |-> built_args.x, y |-> built_args.y,
                width |-> built_args.width, height |-> built_args.height]
        /\ l.text = built_args.text
        /\ l.position.x = b.x + (dx \div 2) + IF dx < 0 /\ dx % 2 = 1 THEN 1 ELSE 0
        /\ l.position.y = b.y + (dy \div 2) + IF dy < 0 /\ dy % 2 = 1 THEN 1 ELSE 0

---------------------------------------------------------------------------
(* Scenario S1: a LoadingScreen constructed at instant 0 handles           *)
(* SystemTick events, the first at any offset, each later one at least     *)
(* 100 ms after the one before (the first `late` of them up to 50 ms       *)
(* more); every redraw succeeds or fails.                                  *)

S1 == [ticks |-> 100, spacing |-> 100, more |-> 2, late |-> 2]
FirstTickOffsets == {0, 50, 100, 150}
TickGaps == {100, 150}

InitLoading ==
    /\ now = 0
    /\ QueueNew
    /\ ButtonNew(0)
    /\ SchedulerNew
    /\ period = 0
    /\ UiNew

\* The wait before the first tick, and between two ticks.
S1Sleep ==
    \/ /\ load_obs.last_tick = None
       /\ now = 0
       /\ \E d \in FirstTickOffsets \ {0} : LoadingSleep(d)
    \/ /\ load_obs.last_tick = Some(now)
       /\ load_obs.ticks < S1.ticks + S1.more
       /\ \E d \in TickGaps :
             /\ d > S1.spacing => load_obs.ticks <= S1.late
             /\ LoadingSleep(d)

S1Tick ==
    /\ load_obs.ticks < S1.ticks + S1.more
    /\ IF load_obs.last_tick = None THEN TRUE
       ELSE now - Unwrap(load_obs.last_tick) >= S1.spacing
    /\ \E draw_ok \in BOOLEAN : LoadingHandleEvent(SystemTick, draw_ok)

NextLoading == S1Sleep \/ S1Tick

SpecLoading == InitLoading /\ [][NextLoading]_vars

\* C25: after 100 SystemTick events, each at least 100 ms after the one
\* before, progress is 100 and is_complete() is true, whenever the first
\* tick comes and whether or not the redraws succeed; progress never
\* exceeds 100.
C25_ScenarioS1 ==
    /\ loading.progress <= 100
    /\ load_obs.ticks >= S1.ticks =>
          /\ loading.progress = 100
          /\ is_complete(loading)

\* What holds instead: progress never exceeds 100 and is the number of
\* ticks handled or one less.
S1_AtMostOneShort ==
    /\ loading.progress <= 100
    /\ loading.progress >= min(load_obs.ticks, 100) - 1
    /\ loading.progress <= load_obs.ticks

---------------------------------------------------------------------------
(* Scenario S2: a HomeScreen handles any sequence of events.               *)

MaxHomeEvents == 10     \* events the HomeScreen handles

HomeEvents == {ButtonPressed(26), ButtonReleased(26), ButtonPressed(25)}

InitHome ==
    /\ now = 0
    /\ QueueNew
    /\ ButtonNew(0)
    /\ SchedulerNew
    /\ period = 0
    /\ UiNew

NextHome ==
    /\ Len(delivered) < MaxHomeEvents
    /\ \E event \in HomeEvents : HomeHandleEvent(event)

SpecHome == InitHome /\ [][NextHome]_vars

\* The number of ButtonPressed(26) events among those handled.
Presses ==
    Cardinality({i \in DOMAIN delivered : delivered[i].ev = ButtonPressed(26)})

\* C26: after any sequence of events with n >= 1 ButtonPressed(26) among
\* them the status label reads "Count: n" and is as wide as that text;
\* before the first press it reads what it was constructed with, so no
\* other event changes it.
C26_StatusCount ==
    LET n == Presses
        count == <<"C", "o", "u", "n", "t", ":", " ">>
    IN  /\ home.counter = n
        /\ n = 0 => home.status.text = SystemReady
        /\ n = 1 => home.status.text = count \o <<"1">>
        /\ n = 2 => home.status.text = count \o <<"2">>
        /\ n = 10 => home.status.text = count \o <<"1", "0">>
        /\ n >= 1 =>
              /\ Len(home.status.text) = 7 + IF n < 10 THEN 1 ELSE 2
              /\ SubSeq(home.status.text, 1, 7) = count
              /\ home.status.text[Len(home.status.text)] = Digits[(n % 10) + 1]
        /\ home.status.bounds.width =
              Len(home.status.text) * char_width(home.status.size)

\* C26's case: press, release, press, release and an event of another pin
\* have been handled: the status reads "Count: 2".
C26_Witness ==
    /\ Len(delivered) = 5
    /\ delivered[1].ev = ButtonPressed(26)
    /\ delivered[2].ev = ButtonReleased(26)
    /\ delivered[3].ev = ButtonPressed(26)
    /\ delivered[4].ev = ButtonReleased(26)
    /\ delivered[5].ev = ButtonPressed(25)
    /\ home.status.text = <<"C", "o", "u", "n", "t", ":", " ", "2">>
    /\ home.status.bounds.width = 40
    /\ ~home.menu_button.pressed

---------------------------------------------------------------------------
(* Scenario S4: a MenuScreen is given up to MaxItems items, at any time,   *)
(* and handles any sequence of events.                                     *)

MaxItems == 3           \* items added to the menu

ItemActions == {"A", "B"}

MenuEvents ==
    {ButtonPressed(MENU_SELECT_PIN), ButtonPressed(MENU_NAV_PIN),
     ButtonReleased(MENU_SELECT_PIN), ButtonReleased(MENU_NAV_PIN),
     ButtonPressed(SELECT_PIN)}

InitMenu ==
    /\ now = 0
    /\ QueueNew
    /\ ButtonNew(0)
    /\ SchedulerNew
    /\ period = 0
    /\ UiNew

NextMenu ==
    \/ /\ Len(menu.items) < MaxItems
       /\ \E action \in ItemActions : MenuAddItem(action)
    \/ \E event \in MenuEvents : \E draw_ok \in BOOLEAN :
          MenuHandleEvent(event, draw_ok)

SpecMenu == InitMenu /\ [][NextMenu]_vars

\* C27: with k >= 1 items ButtonPressed(33) sets selected_index to
\* (selected_index + 1) mod k and runs nothing, so selected_index < k
\* always; ButtonPressed(32) runs the action of the selected item once, no
\* other, and moves nothing; a ButtonReleased, or any other event, runs
\* nothing and changes nothing; with no items no event changes or runs
\* anything.
C27_MenuNavigation ==
    /\ [](Len(menu.items) >= 1 => menu.selected_index < Len(menu.items))
    /\ [][\A event \in MenuEvents :
            (\E draw_ok \in BOOLEAN : MenuHandleEvent(event, draw_ok)) =>
               LET k == Len(menu.items)
               IN  /\ menu'.items = menu.items
                   /\ k = 0 => menu' = menu /\ ran' = <<>>
                   /\ k >= 1 =>
                         IF event = ButtonPressed(33)
                         THEN /\ menu'.selected_index =
                                    (menu.selected_index + 1) % k
                              /\ ran' = <<>>
                         ELSE IF event = ButtonPressed(32)
                         THEN /\ menu' = menu
                              /\ ran' = <<menu.items[menu.selected_index + 1]>>
                         ELSE /\ menu' = menu
                              /\ ran' = <<>>]_vars

\* C27's case: on a menu of three items the selection has just wrapped
\* around from the last item to the first.
C27_Witness ==
    /\ Len(menu.items) = 3
    /\ menu.selected_index = 0
    /\ sink = <<[op |-> "menu", selected |-> 0]>>
    /\ ran = <<>>
    /\ ret_ok

---------------------------------------------------------------------------
(* A button source and a tick source push into one queue and a consumer    *)
(* pops it; the sources are polled and the consumer runs in any order, at  *)
(* instants one debounce time apart.                                       *)

MaxPinsTime == 100      \* last instant of these runs, ms
MaxTickPolls == 2       \* polls of the tick source

InitPins ==
    /\ now = 0
    /\ QueueNew
    /\ SchedulerNew
    /\ period = 0
    /\ ButtonNew(0 - debounce_time)
    /\ SystemTickNew(0, debounce_time)
    /\ WidgetsNew
    /\ ScreenManagerNew
    /\ AppNew

\* The clock advances by the debounce time.
PinsSleep ==
    /\ now + debounce_time <= MaxPinsTime
    /\ now' = now + debounce_time
    /\ UNCHANGED <<queue, ret_ok, main_pc, button_vars, thread_vars, sched_vars,
                   tick_vars, widget_vars, ui_vars, app_vars>>

NextPins ==
    \/ /\ \E level \in BOOLEAN : ButtonPoll(level)
       /\ UNCHANGED main_pc
    \/ /\ Len(tick_polls) < MaxTickPolls
       /\ SystemTickPoll
       /\ UNCHANGED main_pc
    \/ PinsSleep
    \/ /\ PopLock
       /\ UNCHANGED main_pc
    \/ /\ PopFront
       /\ UNCHANGED main_pc

SpecPins == InitPins /\ [][NextPins]_vars

\* The events of the button source's pin in a sequence of events.
IsPinEvent(e) ==
    /\ e.type \in {"ButtonPressed", "ButtonReleased"}
    /\ e.arg = pin_number

PinEvents(seq) == SelectSeq(seq, IsPinEvent)

Alternates(seq) ==
    \A i \in 1..Len(seq) :
        seq[i] = IF i % 2 = 1 THEN ButtonPressed(pin_number)
                 ELSE ButtonReleased(pin_number)

\* C28: the events a button source pushes alternate ButtonPressed,
\* ButtonReleased, ButtonPressed, ... beginning with ButtonPressed, and
\* the consumer pops the pin's events in that order, whatever the tick
\* source pushes in between.
C28_PinAlternation ==
    LET pushes == PinEvents([i \in DOMAIN emitted |-> emitted[i].ev])
        pops == PinEvents(popped)
    IN  /\ Alternates(pushes)
        /\ Alternates(pops)
        /\ Len(pops) <= Len(pushes)
        /\ pops = SubSeq(pushes, 1, Len(pops))

\* C28's case: the consumer has popped a press, a release and a second
\* press of the pin, with a tick between them.
C28_Witness ==
    /\ Len(PinEvents(popped)) = 3
    /\ Len(popped) > 3
    /\ popped[1] = ButtonPressed(pin_number)
    /\ popped[2] = SystemTick
    /\ popped[Len(popped)] = ButtonPressed(pin_number)

---------------------------------------------------------------------------
(* The scheduler and the screen manager on the main thread: tasks are      *)
(* scheduled and cancelled, update() and process_events() are called, in   *)
(* any order; callbacks take no time.                                      *)

InitCancel ==
    /\ now = 0
    /\ QueueNew
    /\ ButtonNew(0)
    /\ SchedulerNew
    /\ period = 0
    /\ UiNew

\* The clock stops here.
MaxCancelClock == 1

NextCancel ==
    \/ /\ screens = <<>>
       /\ AddScreen(LoopScreen)
    \/ /\ main_pc = "idle"
       /\ screens # <<>>
       /\ next_id < MaxTasks
       /\ \E delay \in Delays : ScheduleOnce(delay)
       /\ UNCHANGED main_pc
    \/ /\ main_pc = "idle"
       /\ screens # <<>>
       /\ next_id < MaxTasks
       /\ \E delay \in Delays : \E interval \in Intervals :
             ScheduleRecurring(delay, interval)
       /\ UNCHANGED main_pc
    \/ /\ main_pc = "idle"
       /\ screens # <<>>
       /\ \E id \in 0..next_id : CancelTask(id)
       /\ UNCHANGED main_pc
    \/ /\ main_pc = "idle"
       /\ screens # <<>>
       /\ Len(queue) + Len(delivered) < MaxQueue
       /\ UpdateAt(now, {0})
       /\ UNCHANGED main_pc
    \/ /\ main_pc = "idle"
       /\ screens # <<>>
       /\ now < MaxCancelClock
       /\ SchedTick
       /\ UNCHANGED main_pc
    \/ ProcessLock("idle")
    \/ ProcessDispatch({TRUE})
    \/ ProcessReturn("idle")

SpecCancel == InitCancel /\ [][NextCancel]_vars

\* The number of Timer(id) events among those delivered to a screen.
TimerDelivered(d, id) ==
    Cardinality({i \in DOMAIN d : d[i].ev = Timer(id)})

\* C29: once cancel_task(id) has returned, no Timer(id) is popped from the
\* queue and delivered to a screen any more, those that update() pushed
\* before the cancel included.
C29_NoTimerAfterCancel ==
    [][\A id \in cancelled :
          TimerDelivered(delivered', id) = TimerDelivered(delivered, id)]_vars

\* What holds instead: once cancel_task(id) has returned, update() pushes
\* no Timer(id) any more.
NoTimerPushedAfterCancel ==
    [][\A id \in cancelled :
          TimerCount(queue', id) <= TimerCount(queue, id)]_vars

---------------------------------------------------------------------------
(* Scheduler::update(): the scan of the due tasks ends.                    *)

\* The tasks of one id among those a scan popped.
FiredOf(f, id) == Cardinality({k \in 1..Len(f) : f[k].task.id = id})

\* C30: update() terminates for every heap content, recurring tasks with
\* interval 0 or with an interval shorter than the callback's duration
\* included, and invokes each task's callback at most once per call: the
\* scan of the due tasks pops each task of the heap at most once, recurring
\* tasks being re-inserted after it has ended.
C30_UpdateTerminates ==
    /\ [](/\ PopRuns(tasks, now) # {}
          /\ \A run \in PopRuns(tasks, now) : Len(run) <= Cardinality(tasks))
    /\ [][IsUpdateStep =>
             /\ Len(fired') <= Cardinality(tasks)
             /\ \A k \in 1..Len(fired') : fired'[k].task \in tasks
             /\ \A id \in issued : FiredOf(fired', id) <= 1
             /\ \A id \in issued :
                   CountIn(invocations', id) <= CountIn(invocations, id) + 1]_vars

\* C30's case: an update() has run a recurring task with interval 0 whose
\* callback took 1 ms; the task is back on the heap, due again before the
\* update() returned, and was run once.
C30_Witness ==
    \E k \in 1..Len(fired) :
       /\ fired[k].task.interval = Some(0)
       /\ fired[k].done > fired[k].task.next_run
       /\ FiredOf(fired, fired[k].task.id) = 1
       /\ \E u \in tasks : /\ u.id = fired[k].task.id
                           /\ u.next_run <= now

---------------------------------------------------------------------------
(* The screen manager from ScreenManager::new on: add_screen,              *)
(* switch_to_screen, process_events and get_screen_as_mut in any order,    *)
(* with events pushed in between.                                          *)

InitAccess ==
    /\ now = 0
    /\ QueueNew
    /\ ButtonNew(0)
    /\ SchedulerNew
    /\ period = 0
    /\ UiNew

NextAccess ==
    \/ /\ Len(screens) < MaxScreens
       /\ \E screen \in ScreenChoices : AddScreen(screen)
    \/ \E index \in 0..MaxScreens : SwitchToScreen(index)
    \/ /\ Len(queue) + Len(delivered) < MaxEvents
       /\ \E event \in ManagerEvents : PushEvent(event)
    \/ \E T \in ScreenTypes : GetScreenAsMut(T)
    \/ ProcessLock("idle")
    \/ ProcessDispatch(BOOLEAN)
    \/ ProcessReturn("idle")

SpecAccess == InitAccess /\ [][NextAccess]_vars

\* C31: from a new manager on, no operation indexes `screens` at an index
\* >= the number of screens: process_events with a non-empty queue and
\* get_screen_as_mut never panic on an out-of-range access, before the
\* first add_screen included.
C31_NoOutOfRangeAccess == halted # "index_panic"

\* What holds instead: current_screen is in range from the first
\* add_screen on, and no access panics then.
InRangeOnceAdded ==
    /\ [](screens # <<>> => current_screen < Len(screens))
    /\ [][screens # <<>> => halted' # "index_panic"]_vars

---------------------------------------------------------------------------
(* A LoadingScreen constructed at instant 0 handles events at any          *)
(* instants; every redraw succeeds or fails.                               *)

MaxLoadTime == 250      \* last instant of the clock, ms
MaxLoadTicks == 4       \* SystemTick events handled

LoadSleeps == {50, 99, 100}
LoadEvents == {SystemTick, ButtonPressed(26)}

InitSteps ==
    /\ now = 0
    /\ QueueNew
    /\ ButtonNew(0)
    /\ SchedulerNew
    /\ period = 0
    /\ UiNew

NextSteps ==
    \/ \E d \in LoadSleeps :
          /\ now + d <= MaxLoadTime
          /\ LoadingSleep(d)
    \/ /\ load_obs.ticks < MaxLoadTicks
       /\ \E event \in LoadEvents : \E draw_ok \in BOOLEAN :
             LoadingHandleEvent(event, draw_ok)

SpecSteps == InitSteps /\ [][NextSteps]_vars

\* A step in which the LoadingScreen increments its progress.
IsIncrement == loading'.progress = loading.progress + 1

\* C32: two consecutive increments of progress made on SystemTick events
\* are at least step_duration apart, whenever the ticks come and also when
\* the redraw after an increment fails with DrawError.
C32_IncrementsSpaced ==
    [][(IsIncrement /\ load_obs.last_step # None) =>
          IF load_obs.last_step = None THEN TRUE
          ELSE now - Unwrap(load_obs.last_step) >= step_duration]_vars

\* What holds instead: an increment comes at least step_duration after
\* the one before if that one's redraw succeeded, and at least
\* step_duration after the construction and after the last successful
\* redraw in any case.
SpacedAfterDrawn ==
    [][IsIncrement =>
          /\ now - loading.last_update >= step_duration
          /\ IF load_obs.last_step = None THEN TRUE
             ELSE loading.last_update >= Unwrap(load_obs.last_step) =>
                     now - Unwrap(load_obs.last_step) >= step_duration]_vars

============================================================================
